---- MODULE Spec2Model ----
(***************************************************************************)
(* Dark Run: the two-lane falling-object arithmetic game.                  *)
(*                                                                         *)
(* The game engine (createInitialState, spawnObject, applyOperation, tick, *)
(* movePlayer, addObject) and the level table (LEVELS, getLevelConfig).    *)
(* The announcer (StereoAudioManager): speech by pre-recorded clip or by   *)
(* the speech engine, with the asynchronous steps of each call, and the    *)
(* sound effects; its backend set-up (init), the cached tone Sounds of     *)
(* the effects and cleanup.  The tone generator (generateStereoWav).  The  *)
(* game loop of the game screen, with the audio calls of each iteration,   *)
(* and the game screen around it: start effect, countdown, the React state *)
(* with its queued updates, lane switch and 'Try Again'.                   *)
(*                                                                         *)
(* Positions and speeds are fractions of the screen height in the source   *)
(* (0.85, 0.04, 1.1, 0.004 ...).  Here they are integers in thousandths:   *)
(* 0.85 is 850, a speed of 0.015 per tick is 15.  The source adds doubles, *)
(* so a position that is exactly on a comparison boundary here (0.81,      *)
(* 0.89, 1.1) is a hair above or below it there, and the comparison can    *)
(* come out either way: tieInBand and tiePassed hold the outcome of such   *)
(* a comparison.  Off the boundaries the rounding cannot change a branch.  *)
(***************************************************************************)
EXTENDS Integers, Sequences, FiniteSets, TLC

\* ------------------------------------------------------------------------
\* Bounds of the model
\* ------------------------------------------------------------------------
\* objects handed to addObject in one session
MaxSpawn == 3
\* objects alive at the same time
MaxObjects == 2
\* scores fed to applyOperation when it is checked on its own: -MaxAbsScore..MaxAbsScore
MaxAbsScore == 12
\* operands fed to applyOperation when it is checked on its own: 0..MaxOperand
MaxOperand == 4
\* levels a falling object is spawned from: 1..MaxFallLevel
MaxFallLevel == 13
\* levels fed to getLevelConfig when it is checked on its own: 1..MaxLevel
MaxLevel == 60
\* calls of the speech entry points in one session of the announcer
MaxCalls == 2
\* platform calls that throw or reject in one session of the announcer
MaxFaults == 1
\* objects the game loop spawns in one session
MaxLoopSpawn == 4
\* tone calls (playCollect, playSuccess, playGameOver) made on the announcer
MaxTones == 2
\* init calls made on the announcer
MaxInits == 2
\* objects the game loop of the game screen spawns between two calls of
\* createInitialState
MaxScreenSpawn == 3
\* updates of gameState queued and not yet rendered
MaxPending == 3
\* calls of switchLane handled on one game screen while an update of the
\* loop is still queued
MaxDeferred == 1
\* objects the loop spawns in a session started with 'Try Again'
MaxRetrySpawn == 1
\* game sessions played on one game screen: the first and MaxSessions - 1
\* started with 'Try Again'
MaxSessions == 2

\* ------------------------------------------------------------------------
\* Types
\* ------------------------------------------------------------------------
Lane == {"left", "right"}

OperationType == {"+", "-", "×", "÷"}

typeWords == [t \in OperationType |->
                 CASE t = "+" -> "plus"
                   [] t = "-" -> "minus"
                   [] t = "×" -> "times"
                   [] t = "÷" -> "divided by"]

\* display is `${type}${value}` and speech is `${typeWords[type]} ${value}`:
\* both are kept as the pair of their two parts.
op(type, value) ==
    [type |-> type, value |-> value,
     display |-> <<type, value>>,
     speech |-> <<typeWords[type], value>>]

\* ------------------------------------------------------------------------
\* Level table
\* ------------------------------------------------------------------------
LEVELS == <<
    [level |-> 1, targetScore |-> 10,
     availableOperations |-> <<op("+", 1), op("+", 2), op("+", 3)>>,
     spawnIntervalMs |-> 2500, objectSpeed |-> 4],
    [level |-> 2, targetScore |-> 15,
     availableOperations |-> <<op("+", 1), op("+", 2), op("+", 3),
                               op("-", 1), op("-", 2)>>,
     spawnIntervalMs |-> 2200, objectSpeed |-> 5],
    [level |-> 3, targetScore |-> 20,
     availableOperations |-> <<op("+", 2), op("+", 3), op("+", 5),
                               op("-", 1), op("-", 2), op("-", 3)>>,
     spawnIntervalMs |-> 2000, objectSpeed |-> 6],
    [level |-> 4, targetScore |-> 30,
     availableOperations |-> <<op("+", 2), op("+", 3), op("+", 5),
                               op("-", 2), op("-", 3), op("×", 2)>>,
     spawnIntervalMs |-> 1800, objectSpeed |-> 6],
    [level |-> 5, targetScore |-> 50,
     availableOperations |-> <<op("+", 3), op("+", 5), op("+", 10),
                               op("-", 2), op("-", 5), op("×", 2),
                               op("×", 3), op("÷", 2)>>,
     spawnIntervalMs |-> 1600, objectSpeed |-> 7],
    [level |-> 6, targetScore |-> 100,
     availableOperations |-> <<op("+", 5), op("+", 10), op("+", 15),
                               op("-", 3), op("-", 5), op("-", 10),
                               op("×", 2), op("×", 3), op("÷", 2)>>,
     spawnIntervalMs |-> 1400, objectSpeed |-> 8]
>>

Max(a, b) == IF a >= b THEN a ELSE b

Min(a, b) == IF a <= b THEN a ELSE b

\* the target grows by 100 a level
getLevelConfig_target100(level) ==
    IF level <= Len(LEVELS)
    THEN LEVELS[level]
    ELSE LET lastLevel == LEVELS[Len(LEVELS)]
             scaleFactor == level - Len(LEVELS)
         IN [lastLevel EXCEPT
                !.level = level,
                !.targetScore = lastLevel.targetScore + scaleFactor * 100,
                !.spawnIntervalMs =
                    Max(800, lastLevel.spawnIntervalMs - scaleFactor * 100),
                !.objectSpeed =
                    Min(15, lastLevel.objectSpeed + scaleFactor * 1)]

\* a scaling without the floor of the spawn interval
getLevelConfig_noFloor(level) ==
    IF level <= Len(LEVELS)
    THEN LEVELS[level]
    ELSE LET lastLevel == LEVELS[Len(LEVELS)]
             scaleFactor == level - Len(LEVELS)
         IN [lastLevel EXCEPT
                !.level = level,
                !.targetScore = lastLevel.targetScore + scaleFactor * 50,
                !.spawnIntervalMs = lastLevel.spawnIntervalMs - scaleFactor * 100,
                !.objectSpeed =
                    Min(15, lastLevel.objectSpeed + scaleFactor * 1)]

getLevelConfig(level) ==
    IF level <= Len(LEVELS)
    THEN LEVELS[level]
    ELSE LET lastLevel == LEVELS[Len(LEVELS)]
             scaleFactor == level - Len(LEVELS)
         IN [lastLevel EXCEPT
                !.level = level,
                !.targetScore = lastLevel.targetScore + scaleFactor * 50,
                !.spawnIntervalMs =
                    Max(800, lastLevel.spawnIntervalMs - scaleFactor * 100),
                !.objectSpeed =
                    Min(15, lastLevel.objectSpeed + scaleFactor * 1)]

\* ------------------------------------------------------------------------
\* Engine: pure functions
\* ------------------------------------------------------------------------
createInitialState(levelConfig) ==
    [score |-> 0,
     targetScore |-> levelConfig.targetScore,
     level |-> levelConfig.level,
     playerLane |-> "left",
     objects |-> <<>>,
     gameOver |-> FALSE,
     levelComplete |-> FALSE,
     isPaused |-> FALSE,
     objectsCollected |-> 0,
     objectsMissed |-> 0]

\* a spawn that hands out the same id every time
spawnObject_sameId(levelConfig, lane, opIndex, counter) ==
    [id |-> 1,
     lane |-> lane,
     operation |-> levelConfig.availableOperations[opIndex],
     y |-> 0,
     announced |-> FALSE,
     speed |-> levelConfig.objectSpeed]

\* spawnObject with its two Math.random() draws as parameters (the lane and
\* the index into availableOperations) and the id counter it increments.
spawnObject(levelConfig, lane, opIndex, counter) ==
    [id |-> counter + 1,
     lane |-> lane,
     operation |-> levelConfig.availableOperations[opIndex],
     y |-> 0,
     announced |-> FALSE,
     speed |-> levelConfig.objectSpeed]

\* a division that drops the fraction instead of rounding to the nearest
MathRoundDiv_truncates(n, d) ==
    LET num == IF d < 0 THEN -n ELSE n
        den == IF d < 0 THEN -d ELSE d
    IN num \div den

\* Math.round(n / d) for integers n, d with d # 0: the nearest integer, an
\* exact half going to the larger neighbour (Math.round(2.5) = 3,
\* Math.round(-2.5) = -2).
MathRoundDiv(n, d) ==
    LET num == IF d < 0 THEN -n ELSE n
        den == IF d < 0 THEN -d ELSE d
    IN (2 * num + den) \div (2 * den)

\* a division that answers 0 when the operand is 0
applyOperation_zeroOnDivZero(score, operation) ==
    CASE operation.type = "+" -> score + operation.value
      [] operation.type = "-" -> score - operation.value
      [] operation.type = "×" -> score * operation.value
      [] operation.type = "÷" ->
            IF operation.value = 0
            THEN 0
            ELSE MathRoundDiv(score, operation.value)
      [] OTHER -> score

applyOperation(score, operation) ==
    CASE operation.type = "+" -> score + operation.value
      [] operation.type = "-" -> score - operation.value
      [] operation.type = "×" -> score * operation.value
      [] operation.type = "÷" ->
            IF operation.value = 0
            THEN score
            ELSE MathRoundDiv(score, operation.value)
      [] OTHER -> score

PLAYER_Y == 850

COLLISION_THRESHOLD == 40

TICK_MS == 16

Abs(x) == IF x < 0 THEN -x ELSE x

VARIABLES
    tieInBand,    \* Math.abs(newY - PLAYER_Y) < COLLISION_THRESHOLD when the
                  \* exact distance equals the threshold
    tiePassed     \* newY > 1.1 when the exact position equals 1.1

tieVars == <<tieInBand, tiePassed>>

\* a band a fast object can step over
InBand_narrow(newY) ==
    Abs(newY - PLAYER_Y) < COLLISION_THRESHOLD \div 10

\* Math.abs(newY - PLAYER_Y) < COLLISION_THRESHOLD
InBand(newY) ==
    \/ Abs(newY - PLAYER_Y) < COLLISION_THRESHOLD
    \/ Abs(newY - PLAYER_Y) = COLLISION_THRESHOLD /\ tieInBand

\* the collision test of tick's loop body, on the advanced position newY
Collides(obj, newY, playerLane) ==
    /\ ~obj.announced
    /\ InBand(newY)
    /\ obj.lane = playerLane

\* a pass-through test that fires at the player edge already
PassedBottom_early(newY) == newY > 1000

\* a pass-through test that lets objects fall further
PassedBottom_late(newY) == newY > 1200

\* the pass-through test of tick's loop body
PassedBottom(newY) ==
    \/ newY > 1100
    \/ newY = 1100 /\ tiePassed

\* a win test that misses a score equal to the target
ReachedTarget_strict(score, targetScore) == score > targetScore

\* the win test made after a collection
ReachedTarget(score, targetScore) == score >= targetScore

\* a floor test that is off by one
BelowFloor_offByOne(score) == score < -21

\* the lose test made after a collection
BelowFloor(score) == score < -20

\* a collected object that is moved on and kept in play
dropConsumed_keeps(updatedObjects, obj, newY) ==
    Append(updatedObjects, [obj EXCEPT !.y = newY])

\* the collected object is not pushed to updatedObjects: the loop continues
dropConsumed(updatedObjects, obj, newY) == updatedObjects

\* a loop body that skips the objects behind the one that ended the game
tickStep_stopsAtOutcome(acc, obj, state) ==
    LET newY == obj.y + obj.speed
    IN IF acc.gameOver \/ acc.levelComplete
       THEN [acc EXCEPT !.updatedObjects = Append(@, obj)]
       ELSE IF Collides(obj, newY, state.playerLane)
       THEN LET score == applyOperation(acc.score, obj.operation)
            IN [acc EXCEPT
                   !.score = score,
                   !.objectsCollected = @ + 1,
                   !.levelComplete =
                       IF ReachedTarget(score, state.targetScore) THEN TRUE ELSE @,
                   !.gameOver = IF BelowFloor(score) THEN TRUE ELSE @,
                   !.updatedObjects = dropConsumed(@, obj, newY),
                   !.collectedIds = Append(@, obj.id)]
       ELSE IF PassedBottom(newY)
       THEN [acc EXCEPT
                !.objectsMissed = @ + 1,
                !.missedIds = Append(@, obj.id)]
       ELSE [acc EXCEPT
                !.updatedObjects = Append(@, [obj EXCEPT !.y = newY])]

\* One iteration of tick's for loop: acc holds the loop's local variables.
\* collectedIds and missedIds record which branch each object took; they are
\* not part of the returned state.
tickStep(acc, obj, state) ==
    LET newY == obj.y + obj.speed
    IN IF Collides(obj, newY, state.playerLane)
       THEN LET score == applyOperation(acc.score, obj.operation)
            IN [acc EXCEPT
                   !.score = score,
                   !.objectsCollected = @ + 1,
                   !.levelComplete =
                       IF ReachedTarget(score, state.targetScore) THEN TRUE ELSE @,
                   !.gameOver = IF BelowFloor(score) THEN TRUE ELSE @,
                   !.updatedObjects = dropConsumed(@, obj, newY),
                   !.collectedIds = Append(@, obj.id)]
       ELSE IF PassedBottom(newY)
       THEN [acc EXCEPT
                !.objectsMissed = @ + 1,
                !.missedIds = Append(@, obj.id)]
       ELSE [acc EXCEPT
                !.updatedObjects = Append(@, [obj EXCEPT !.y = newY])]

RECURSIVE tickLoop(_, _, _)
tickLoop(acc, objects, state) ==
    IF objects = <<>>
    THEN acc
    ELSE tickLoop(tickStep(acc, Head(objects), state), Tail(objects), state)

\* the loop of tick run on a state that passed the early return
tickRun(state) ==
    tickLoop([score |-> state.score,
              objectsCollected |-> state.objectsCollected,
              objectsMissed |-> state.objectsMissed,
              gameOver |-> FALSE,
              levelComplete |-> FALSE,
              updatedObjects |-> <<>>,
              collectedIds |-> <<>>,
              missedIds |-> <<>>],
             state.objects, state)

\* a tick that runs on a paused game
tick_ignoresPause(state) ==
    IF state.gameOver \/ state.levelComplete
    THEN state
    ELSE LET r == tickRun(state)
         IN [state EXCEPT
                !.score = r.score,
                !.objects = r.updatedObjects,
                !.objectsCollected = r.objectsCollected,
                !.objectsMissed = r.objectsMissed,
                !.gameOver = r.gameOver,
                !.levelComplete = r.levelComplete]

tick(state) ==
    IF state.gameOver \/ state.levelComplete \/ state.isPaused
    THEN state
    ELSE LET r == tickRun(state)
         IN [state EXCEPT
                !.score = r.score,
                !.objects = r.updatedObjects,
                !.objectsCollected = r.objectsCollected,
                !.objectsMissed = r.objectsMissed,
                !.gameOver = r.gameOver,
                !.levelComplete = r.levelComplete]

\* a lane change that is also applied to a finished game
movePlayer_always(state, lane) == [state EXCEPT !.playerLane = lane]

movePlayer(state, lane) ==
    IF state.gameOver \/ state.levelComplete
    THEN state
    ELSE [state EXCEPT !.playerLane = lane]

\* an addObject that puts the new object in place of the ones in play
addObject_replaces(state, obj) == [state EXCEPT !.objects = <<obj>>]

addObject(state, obj) ==
    [state EXCEPT !.objects = Append(@, obj)]

\* ------------------------------------------------------------------------
\* Tone generation (generateStereoWav)
\* ------------------------------------------------------------------------
\* sample = rawSample * envelope * 0.6 is the same for every pan; it is
\* taken in thousandths, leftSample and rightSample in ten-thousandths, so
\* that sample * 0.1 is exact.

\* the factor 0.6 of sample, in thousandths
AMPLITUDE == 600

Samples == (0 - AMPLITUDE)..AMPLITUDE

Pans == {"left", "right", "center"}

\* view.setInt16(offset, Math.floor(x * 32767)) for x in ten-thousandths
writeInt16(x) == (x * 32767) \div 10000

\* a tone whose opposite channel is silent
generateStereoWav_muted(sample, pan) ==
    LET leftSample == IF pan = "right" THEN 0 ELSE sample * 10
        rightSample == IF pan = "left" THEN 0 ELSE sample * 10
    IN [leftSample |-> leftSample,
        rightSample |-> rightSample,
        left |-> writeInt16(leftSample),
        right |-> writeInt16(rightSample)]

\* the body of generateStereoWav's sample loop from the pan test on: the
\* two channel values and the two 16-bit values written for one sample
generateStereoWav(sample, pan) ==
    LET leftSample == IF pan = "right" THEN sample ELSE sample * 10
        rightSample == IF pan = "left" THEN sample ELSE sample * 10
    IN [leftSample |-> leftSample,
        rightSample |-> rightSample,
        left |-> writeInt16(leftSample),
        right |-> writeInt16(rightSample)]

\* ------------------------------------------------------------------------
\* Announcer (StereoAudioManager): speech and sound effects
\* ------------------------------------------------------------------------
\* JavaScript runs one task at a time, so the code between two awaits is one
\* step.  A call runs up to its first await inside the caller's step; each
\* later step of the call starts when the promise it awaits settles.  A
\* promise of the platform (Audio.Sound.createAsync, setPositionAsync,
\* playAsync) settles in a later task, an already settled promise in a
\* microtask, which runs before any later task.  A command sent to a Sound
\* or to the speech engine takes effect when it is sent.
\*
\* A call is identified by its position in the order of the calls, and a
\* Sound object by the call that created it.  Each call records what it
\* started (played: a clip, a TTS utterance, both or nothing) and whether
\* its Speech.speak threw (ttsThrew).

Calls == 1..MaxCalls

\* the asset keys resolveAssetKey builds for the announcements of the model
AssetKeys ==
    {"announce_left_plus_3", "level_intro_1", "countdown_go",
     "level_complete_1", "game_over"}

\* the speech entry points and the key each of them asks for
SpeechApis ==
    {"announceObject", "announceLevelComplete", "announceGameOver",
     "speak", "speakAndWait"}

\* asset tables the manager is run with: nothing recorded yet, everything
\* recorded, and two partly recorded tables
AssetTables ==
    {{}, AssetKeys, {"announce_left_plus_3"}, {"game_over", "level_intro_1"}}

ApiKey(api) ==
    CASE api = "announceObject" -> "announce_left_plus_3"
      [] api = "announceLevelComplete" -> "level_complete_1"
      [] api = "announceGameOver" -> "game_over"
      [] api = "speak" -> "countdown_go"
      [] api = "speakAndWait" -> "level_intro_1"

\* the sound effects
Effects == {"playCollect", "playSuccess", "playGameOver"}

NoCall ==
    [api |-> "none", key |-> "none", pc |-> "idle", sound |-> 0,
     cached |-> FALSE, halted |-> FALSE, faulted |-> FALSE,
     played |-> "none", ttsThrew |-> FALSE, text |-> "none"]

NoSound == [playing |-> FALSE, by |-> 0, cb |-> 0]

\* the manager after construction, with the asset table and the speech
\* setting given
newStereoAudioManager(assetTable, speechOn) ==
    [speechEnabled |-> speechOn,
     assets |-> assetTable,
     speaking |-> FALSE,
     stopped |-> FALSE,
     currentSound |-> 0,
     soundCache |-> [k \in AssetKeys |-> 0],
     calls |-> [c \in Calls |-> NoCall],
     nCalls |-> 0,
     snd |-> [s \in Calls |-> NoSound],
     ttsNow |-> 0,
     ttsStopped |-> {},
     faults |-> 0,
     tones |-> {},
     lateStart |-> FALSE]

\* a lookup that finds a clip for every key
hasPreRecorded_always(an, key) == TRUE

hasPreRecorded(an, key) == key \in an.assets

\* key in resolveAssetKey is defined: the call passes a context
hasContext(an, api) ==
    \/ api \in {"announceObject", "speak", "speakAndWait"}
    \/ hasPreRecorded(an, ApiKey(api))

isWaitCall(an, c) == an.calls[c].api = "speakAndWait"

stopCurrentPlayback(an) ==
    IF an.currentSound = 0
    THEN an
    ELSE [an EXCEPT !.snd[an.currentSound].playing = FALSE,
                    !.currentSound = 0]

\* Speech.stop(): the utterance being spoken ends and its onStopped callback
\* is delivered in a later task
SpeechStop(an) ==
    IF an.ttsNow = 0
    THEN an
    ELSE [an EXCEPT !.ttsStopped = @ \cup {an.ttsNow}, !.ttsNow = 0]

\* Speech.speak(text, callbacks) of call c
SpeechSpeak(an, c) ==
    [an EXCEPT !.ttsNow = c,
               !.calls[c].played = IF @ = "none" THEN "tts" ELSE "both",
               !.lateStart = @ \/ an.calls[c].halted]

\* sound.playAsync() of call c on Sound s, the Sound starting to play
startPlay(an, s, c) ==
    [an EXCEPT !.snd[s].playing = TRUE,
               !.snd[s].by = c,
               !.calls[c].played = IF @ = "none" THEN "clip" ELSE "both",
               !.lateStart = @ \/ an.calls[c].halted]

\* a platform call of call c throws or rejects
fault(an, c) ==
    [an EXCEPT !.faults = @ + 1, !.calls[c].faulted = TRUE]

\* a speakAndWait that returns as soon as the utterance is handed over
ttsFallback_noWait(an, c, throws) ==
    LET a1 == SpeechStop(an)
    IN IF throws
       THEN IF isWaitCall(an, c)
            THEN [fault(a1, c) EXCEPT !.calls[c].pc = "rejected",
                                      !.calls[c].ttsThrew = TRUE]
            ELSE [fault(a1, c) EXCEPT !.speaking = FALSE,
                                      !.calls[c].pc = "done",
                                      !.calls[c].ttsThrew = TRUE]
       ELSE [SpeechSpeak(a1, c) EXCEPT
                !.speaking = TRUE,
                !.calls[c].pc = "done"]

\* "Fallback: TTS" of speak and of speakAndWait.  In speak a throw lands in
\* the catch; in speakAndWait it happens inside the executor of the promise
\* that is returned without await, so that promise rejects.
ttsFallback(an, c, throws) ==
    LET a1 == SpeechStop(an)
    IN IF throws
       THEN IF isWaitCall(an, c)
            THEN [fault(a1, c) EXCEPT !.calls[c].pc = "rejected",
                                      !.calls[c].ttsThrew = TRUE]
            ELSE [fault(a1, c) EXCEPT !.speaking = FALSE,
                                      !.calls[c].pc = "done",
                                      !.calls[c].ttsThrew = TRUE]
       ELSE [SpeechSpeak(a1, c) EXCEPT
                !.speaking = TRUE,
                !.calls[c].pc =
                    IF isWaitCall(an, c) THEN "ttswait" ELSE "done"]

\* the call's playAsync on Sound s: the Sound starts, or the promise will
\* reject
playIssued(an, s, c, throws, pcStarted) ==
    IF throws
    THEN [fault(an, c) EXCEPT !.calls[c].pc = "playfail"]
    ELSE [startPlay(an, s, c) EXCEPT !.calls[c].pc = pcStarted]

\* the text the entry point hands to speak: announceLevelComplete and
\* announceGameOver leave the score out when the clip is recorded
speechText(an, api) ==
    CASE api = "announceLevelComplete" ->
            IF hasPreRecorded(an, ApiKey(api))
            THEN "Level 1 complete!"
            ELSE "Level 1 complete! Score: X"
      [] api = "announceGameOver" ->
            IF hasPreRecorded(an, ApiKey(api))
            THEN "Game over"
            ELSE "Game over. Score: X"
      [] api = "announceObject" -> "left, plus 3"
      [] api = "speak" -> "Go!"
      [] api = "speakAndWait" -> "Level 1. Get ready!"

\* speak and speakAndWait up to their first await
speakBegin(an, api, f) ==
    LET c == an.nCalls + 1
        key == ApiKey(api)
        a0 == [an EXCEPT !.nCalls = c,
                         !.calls[c].api = api,
                         !.calls[c].key = key,
                         !.calls[c].text = speechText(an, api)]
    IN IF ~an.speechEnabled
       THEN [a0 EXCEPT !.calls[c].pc = "skipped"]
       ELSE LET a1 == stopCurrentPlayback([a0 EXCEPT !.stopped = FALSE])
            IN IF ~hasContext(an, api)
               THEN ttsFallback(a1, c, "tts" \in f)
               ELSE IF ~hasPreRecorded(an, key)
               THEN [a1 EXCEPT !.calls[c].pc = "micro"]
               ELSE IF a1.soundCache[key] # 0
               THEN [a1 EXCEPT !.calls[c].pc = "setpos",
                               !.calls[c].sound = a1.soundCache[key],
                               !.calls[c].cached = TRUE]
               ELSE [a1 EXCEPT !.calls[c].pc = "create"]

announceObject(an, f) ==
    IF an.stopped THEN an ELSE speakBegin(an, "announceObject", f)

\* the catch of playPreRecorded (return false) and of playPreRecordedAndWait
\* (resolve(false)), and the caller going on to the TTS fallback
clipFailed(an, c, f) ==
    IF isWaitCall(an, c)
    THEN ttsFallback([an EXCEPT !.speaking = FALSE, !.currentSound = 0],
                     c, "tts" \in f)
    ELSE ttsFallback(an, c, "tts" \in f)

\* after await Audio.Sound.createAsync
afterCreate(an, c, f) ==
    IF "load" \in f
    THEN clipFailed(fault(an, c), c, f)
    ELSE LET a1 == [an EXCEPT !.soundCache[an.calls[c].key] = c,
                              !.calls[c].sound = c,
                              !.currentSound = c]
         IN IF isWaitCall(an, c)
            THEN playIssued([a1 EXCEPT !.snd[c].cb = c, !.speaking = TRUE],
                            c, c, "play" \in f, "wait")
            ELSE playIssued(a1, c, c, "play" \in f, "play")

\* after await sound.setPositionAsync(0)
afterSetpos(an, c, f) ==
    LET s == an.calls[c].sound
    IN IF "load" \in f
       THEN clipFailed(fault(an, c), c, f)
       ELSE IF isWaitCall(an, c)
       THEN playIssued([an EXCEPT !.currentSound = s,
                                  !.snd[s].cb = c,
                                  !.speaking = TRUE],
                       s, c, "play" \in f, "wait")
       ELSE playIssued(an, s, c, "play" \in f, "play")

\* playPreRecorded after await playAsync, and speak after it returned true
afterPlay(an, c) ==
    LET a1 == IF an.calls[c].cached
              THEN [an EXCEPT !.currentSound = an.calls[c].sound]
              ELSE an
    IN [a1 EXCEPT !.speaking = TRUE, !.calls[c].pc = "done"]

\* playAsync rejected
afterPlayFail(an, c, f) ==
    IF an.calls[c].pc = "playfailDone"
    THEN [an EXCEPT !.speaking = FALSE,
                    !.currentSound = 0,
                    !.calls[c].pc = "done"]
    ELSE clipFailed(an, c, f)

\* Sound s reaches its end: the status callback set on it, if any, runs
soundFinished(an, s) ==
    LET a1 == [an EXCEPT !.snd[s].playing = FALSE]
        w == an.snd[s].cb
    IN IF w = 0
       THEN a1
       ELSE [a1 EXCEPT
                !.speaking = FALSE,
                !.currentSound = 0,
                !.calls[w].pc =
                    IF @ = "wait" THEN "done"
                    ELSE IF @ = "playfail" THEN "playfailDone"
                    ELSE @]

\* onDone, onError or onStopped of the utterance of call c
ttsCallback(an, c) ==
    [an EXCEPT !.speaking = FALSE,
               !.calls[c].pc = IF @ = "ttswait" THEN "done" ELSE @]

stop(an) ==
    LET a1 == SpeechStop(stopCurrentPlayback(
                  [an EXCEPT !.stopped = TRUE, !.speaking = FALSE]))
    IN [a1 EXCEPT !.calls =
            [c \in Calls |->
                IF a1.calls[c].pc = "idle"
                THEN a1.calls[c]
                ELSE [a1.calls[c] EXCEPT !.halted = TRUE]]]

\* playCollect, playSuccess, playGameOver: a tone of its own
playEffect(an, e) == [an EXCEPT !.tones = @ \cup {e}]

\* ------------------------------------------------------------------------
\* Announcer (StereoAudioManager): backend set-up, tone effects, cleanup
\* ------------------------------------------------------------------------
\* The native build (Platform.OS !== 'web'): init awaits
\* Audio.setAudioModeAsync, the effects go through the temp-file tone path of
\* playNativeTone and playGameOver, and webAudioContext stays null.  The
\* cache keys of the tones and of the speech clips are disjoint; backend
\* holds the tone entries of soundCache.  A tone call is identified by its
\* position in the order of the calls and a Sound by the call that created
\* it.

Tones == 1..MaxTones

Inits == 1..MaxInits

\* the cache keys of playCollect('left'), playCollect('right'), playSuccess
\* and playGameOver
ToneKeys ==
    {"left_880_150", "right_880_150", "left_784_300", "gameover_center"}

NoTone == [key |-> "none", pc |-> "idle", sound |-> 0, early |-> FALSE]

NoHandle == [key |-> "none", loaded |-> FALSE, playing |-> FALSE,
             instance |-> 0]

\* The manager after construction.  order is the insertion order of
\* soundCache and cursor the position of cleanup's iterator in it; setups
\* counts the Audio.setAudioModeAsync calls, written and created the tone
\* files written and the Sounds created per key since the latest cleanup;
\* early marks the tone calls made before cleanup was called.
newBackend(audioOn) ==
    [audioEnabled |-> audioOn,
     initialized |-> FALSE,
     webAudioContext |-> FALSE,
     soundCache |-> [k \in ToneKeys |-> 0],
     fileCache |-> [k \in ToneKeys |-> FALSE],
     order |-> <<>>,
     inits |-> [i \in Inits |-> "idle"],
     nInits |-> 0,
     setups |-> 0,
     tones |-> [t \in Tones |-> NoTone],
     nTones |-> 0,
     handles |-> [h \in Tones |-> NoHandle],
     written |-> [k \in ToneKeys |-> 0],
     created |-> [k \in ToneKeys |-> 0],
     cleanup |-> "idle",
     cursor |-> 0]

\* init up to its await
init(bk) ==
    LET i == bk.nInits + 1
    IN IF bk.initialized
       THEN [bk EXCEPT !.nInits = i, !.inits[i] = "done"]
       ELSE [bk EXCEPT !.nInits = i, !.inits[i] = "setup", !.setups = @ + 1]

\* init after await Audio.setAudioModeAsync, which resolved (ok) or rejected
afterSetAudioMode(bk, i, ok) ==
    IF ok
    THEN [bk EXCEPT !.initialized = TRUE, !.inits[i] = "done"]
    ELSE [bk EXCEPT !.inits[i] = "done"]

\* sound.setPositionAsync(0) sent to Sound h by call t: a Sound that is
\* playing goes on from the start, which ends the instance that was heard
rewind(bk, h, t) ==
    IF bk.handles[h].loaded /\ bk.handles[h].playing
    THEN [bk EXCEPT !.handles[h].instance = t]
    ELSE bk

\* sound.playAsync() sent to Sound h by call t
playTone(bk, h, t) ==
    IF bk.handles[h].playing
    THEN bk
    ELSE [bk EXCEPT !.handles[h].playing = TRUE, !.handles[h].instance = t]

\* playNativeTone, and the native branch of playGameOver, up to the first
\* await
playNativeTone(bk, key) ==
    LET t == bk.nTones + 1
        b0 == [bk EXCEPT !.nTones = t,
                         !.tones[t].key = key,
                         !.tones[t].early = (bk.cleanup = "idle")]
    IN IF ~bk.audioEnabled
       THEN [b0 EXCEPT !.tones[t].pc = "done"]
       ELSE IF bk.soundCache[key] # 0
       THEN [rewind(b0, bk.soundCache[key], t) EXCEPT
                !.tones[t].pc = "setpos",
                !.tones[t].sound = bk.soundCache[key]]
       ELSE IF bk.fileCache[key]
       THEN [b0 EXCEPT !.tones[t].pc = "create"]
       ELSE [b0 EXCEPT !.tones[t].pc = "write", !.written[key] = @ + 1]

\* after await sound.setPositionAsync(0); on an unloaded Sound the await
\* throws into the catch
afterSetPosition(bk, t) ==
    LET h == bk.tones[t].sound
    IN IF ~bk.handles[h].loaded
       THEN [bk EXCEPT !.tones[t].pc = "done"]
       ELSE [playTone(bk, h, t) EXCEPT !.tones[t].pc = "play"]

\* after await FileSystem.writeAsStringAsync
afterWrite(bk, t) ==
    [bk EXCEPT !.fileCache[bk.tones[t].key] = TRUE, !.tones[t].pc = "create"]

\* after await Audio.Sound.createAsync: the Sound of call t exists
afterCreateTone(bk, t) ==
    LET key == bk.tones[t].key
        b1 == [bk EXCEPT
                  !.handles[t] = [key |-> key, loaded |-> TRUE,
                                  playing |-> FALSE, instance |-> 0],
                  !.created[key] = @ + 1,
                  !.order = IF bk.soundCache[key] = 0 THEN Append(@, key) ELSE @,
                  !.soundCache[key] = t,
                  !.tones[t].sound = t]
    IN [playTone(b1, t, t) EXCEPT !.tones[t].pc = "play"]

\* after await sound.playAsync()
afterPlayTone(bk, t) == [bk EXCEPT !.tones[t].pc = "done"]

\* Sound h reaches the end of its tone
toneFinished(bk, h) == [bk EXCEPT !.handles[h].playing = FALSE]

\* cleanup's for loop from its iterator's position on: unloadAsync on the
\* next Sound of soundCache and the await, or the code after the loop
cleanupLoop(bk) ==
    IF bk.cursor < Len(bk.order)
    THEN LET h == bk.soundCache[bk.order[bk.cursor + 1]]
         IN [bk EXCEPT !.handles[h].loaded = FALSE,
                       !.handles[h].playing = FALSE,
                       !.cursor = @ + 1,
                       !.cleanup = "unload"]
    ELSE [bk EXCEPT !.soundCache = [k \in ToneKeys |-> 0],
                    !.fileCache = [k \in ToneKeys |-> FALSE],
                    !.order = <<>>,
                    !.cursor = 0,
                    !.written = [k \in ToneKeys |-> 0],
                    !.created = [k \in ToneKeys |-> 0],
                    !.webAudioContext = FALSE,
                    !.initialized = FALSE,
                    !.cleanup = "done"]

\* ------------------------------------------------------------------------
\* State
\* ------------------------------------------------------------------------
VARIABLES
    state,        \* the GameState the driver holds
    idCounter,    \* the module-level id counter of the engine
    lastOp,       \* the engine operation that produced state
    collected,    \* per object id: how many times a tick collected it
    missed,       \* per object id: how many times a tick counted it as missed
    opScore,      \* applyOperation on its own: the score argument
    opArg,        \* applyOperation on its own: the operation argument
    opResult,     \* applyOperation on its own: the returned value
    opDone,       \* applyOperation on its own: TRUE once it has returned
    lvlArg,       \* getLevelConfig on its own: the level argument
    lvlResult,    \* getLevelConfig on its own: the returned LevelConfig
    lvlDone,      \* getLevelConfig on its own: TRUE once it has returned
    announcer,    \* the StereoAudioManager singleton, with the Sounds and the
                  \* speech engine it drives and the calls made on it
    elapsed,      \* game loop: Date.now() - lastSpawnTime.current at the
                  \* latest iteration, in ms
    audioLog,     \* game loop: the audio calls of the latest iteration
    backend,      \* the StereoAudioManager singleton: backend set-up, tone
                  \* caches, tone Sounds and the init, tone and cleanup calls
    wav,          \* generateStereoWav on its own: the sample and the pan it
                  \* is given, what it wrote, and whether it has run
    screen        \* the GameScreen component: the start effect's position,
                  \* countdown, the React state gameState and its queued
                  \* updates, and what the session has done so far

engineVars == <<state, idCounter, lastOp, collected, missed>>

opVars == <<opScore, opArg, opResult, opDone>>

lvlVars == <<lvlArg, lvlResult, lvlDone>>

audioVars == <<announcer>>

loopVars == <<elapsed, audioLog>>

backendVars == <<backend>>

wavVars == <<wav>>

screenVars == <<screen>>

vars ==
    <<engineVars, opVars, tieVars, lvlVars, audioVars, loopVars, backendVars,
      wavVars, screenVars>>

\* everything but the engine's variables
exceptEngine ==
    <<opVars, tieVars, lvlVars, audioVars, loopVars, backendVars,
      wavVars, screenVars>>

\* everything but the variables of applyOperation on its own
exceptOp ==
    <<engineVars, tieVars, lvlVars, audioVars, loopVars, backendVars,
      wavVars, screenVars>>

\* everything but the variables of getLevelConfig on its own
exceptLvl ==
    <<engineVars, opVars, tieVars, audioVars, loopVars, backendVars,
      wavVars, screenVars>>

\* everything but the announcer
exceptAudio ==
    <<engineVars, opVars, tieVars, lvlVars, loopVars, backendVars,
      wavVars, screenVars>>

\* everything the game loop leaves alone
exceptLoop ==
    <<opVars, tieVars, lvlVars, audioVars, backendVars,
      wavVars, screenVars>>

\* everything but the backend of the announcer
exceptBackend ==
    <<engineVars, opVars, tieVars, lvlVars, audioVars, loopVars,
      wavVars, screenVars>>

\* everything but the variable of generateStereoWav on its own
exceptWav ==
    <<engineVars, opVars, tieVars, lvlVars, audioVars, loopVars, backendVars,
      screenVars>>

\* everything the game screen leaves alone
exceptScreen ==
    <<opVars, tieVars, lvlVars, audioVars, backendVars, wavVars>>

Ids == 1..MaxSpawn

\* how many times id occurs in the sequence s
Occurrences(s, id) == Cardinality({i \in 1..Len(s) : s[i] = id})

\* ------------------------------------------------------------------------
\* Inputs of the engine
\* ------------------------------------------------------------------------
\* The operations carried by the objects handed to addObject: level-table
\* operations and one large operand.
ObjectOperations ==
    {op("+", 10), op("-", 7), op("×", 3), op("÷", 2), op("-", 31)}

\* The objects enter just above the collision band, at the fastest speed
\* getLevelConfig produces.
StartYs == {805}

Speeds == {getLevelConfig(13).objectSpeed}

ObjectInputs(id) ==
    {[id |-> id, lane |-> l, operation |-> o, y |-> y0,
      announced |-> FALSE, speed |-> s] :
        l \in Lane, o \in ObjectOperations, y0 \in StartYs, s \in Speeds}

\* ------------------------------------------------------------------------
\* Engine as driven through its interface
\* ------------------------------------------------------------------------
\* no position of the run lands on a comparison boundary
InitNoTie ==
    /\ tieInBand = FALSE
    /\ tiePassed = FALSE

InitAudioIdle == announcer = newStereoAudioManager({}, TRUE)

InitBackendIdle == backend = newBackend(TRUE)

InitWavIdle ==
    wav = [sample |-> 0, pan |-> "center", out |-> generateStereoWav(0, "center"),
           done |-> FALSE]

\* the GameScreen component as its first render and its effects leave it:
\* start() is awaiting stereoAudio.init().  mounted is FALSE once the
\* cleanups of the effects have run.  gameState is the React state,
\* pending its queued updates in the order they were queued.  The
\* fields from session on record what has happened: the values countdown
\* was set to, the latest state installed by createInitialState or stored by
\* the loop and moved to the lane of every switchLane processed since,
\* whether switchLane was called since 'Try Again', whether the loop ticked
\* in this session, the outcome sequences the loop dispatched in it, whether
\* the loop ticked after one, how many updaters were queued behind an update
\* of the loop, and whether the screen was torn down before the intro had
\* returned.
newGameScreen(level, mounted) ==
    [mounted |-> mounted,
     start |-> "init",
     cancelled |-> FALSE,
     countdown |-> -1,
     gameState |-> createInitialState(getLevelConfig(level)),
     pending |-> <<>>,
     session |-> 1,
     history |-> <<>>,
     committed |-> createInitialState(getLevelConfig(level)),
     input |-> FALSE,
     deferred |-> 0,
     ticked |-> FALSE,
     outcomes |-> [levelComplete |-> 0, gameOver |-> 0],
     afterOutcome |-> FALSE,
     tornInIntro |-> FALSE]

InitScreenIdle == screen = newGameScreen(1, FALSE)

InitLoopIdle ==
    /\ elapsed = 0
    /\ audioLog = <<>>

InitLvlIdle ==
    /\ lvlArg = 1
    /\ lvlResult = getLevelConfig(1)
    /\ lvlDone = FALSE

InitEngineIdle ==
    /\ state = createInitialState(getLevelConfig(1))
    /\ idCounter = 0
    /\ lastOp = "createInitialState"
    /\ collected = [i \in Ids |-> 0]
    /\ missed = [i \in Ids |-> 0]

InitOpIdle ==
    /\ opScore = 0
    /\ opArg = op("+", 0)
    /\ opResult = 0
    /\ opDone = FALSE

Init ==
    /\ state = createInitialState(getLevelConfig(1))
    /\ idCounter = 0
    /\ lastOp = "createInitialState"
    /\ collected = [i \in Ids |-> 0]
    /\ missed = [i \in Ids |-> 0]
    /\ InitOpIdle
    /\ InitNoTie
    /\ InitLvlIdle
    /\ InitAudioIdle
    /\ InitLoopIdle
    /\ InitBackendIdle
    /\ InitWavIdle
    /\ InitScreenIdle

Tick ==
    /\ state' = tick(state)
    /\ lastOp' = "tick"
    /\ IF state.gameOver \/ state.levelComplete \/ state.isPaused
       THEN UNCHANGED <<collected, missed>>
       ELSE LET r == tickRun(state)
            IN /\ collected' = [i \in Ids |->
                                  collected[i] + Occurrences(r.collectedIds, i)]
               /\ missed' = [i \in Ids |->
                                missed[i] + Occurrences(r.missedIds, i)]
    /\ UNCHANGED <<idCounter, exceptEngine>>

MovePlayer ==
    \E lane \in Lane :
        /\ state' = movePlayer(state, lane)
        /\ lastOp' = "movePlayer"
        /\ UNCHANGED <<idCounter, collected, missed, exceptEngine>>

AddObject ==
    /\ idCounter < MaxSpawn
    /\ Len(state.objects) < MaxObjects
    /\ \E obj \in ObjectInputs(idCounter + 1) :
          state' = addObject(state, obj)
    /\ idCounter' = idCounter + 1
    /\ lastOp' = "addObject"
    /\ UNCHANGED <<collected, missed, exceptEngine>>

Next == Tick \/ MovePlayer \/ AddObject

Spec == Init /\ [][Next]_vars

\* ------------------------------------------------------------------------
\* tick on an arbitrary GameState
\* ------------------------------------------------------------------------
\* tick is a function of any GameState value, also of one no sequence of
\* engine calls produces (nothing in the engine sets isPaused or announced).
AnyObjects(id) ==
    {[id |-> id, lane |-> l, operation |-> o, y |-> y0,
      announced |-> a, speed |-> s] :
        l \in Lane, o \in {op("+", 10)},
        y0 \in {805, 820, 1090}, a \in BOOLEAN, s \in Speeds}

AnyObjectLists ==
    UNION {{objs \in [1..n -> UNION {AnyObjects(i) : i \in 1..n}] :
                \A i \in 1..n : objs[i].id = i} : n \in 0..MaxObjects}

AnyStates ==
    {[score |-> sc,
      targetScore |-> getLevelConfig(1).targetScore,
      level |-> 1,
      playerLane |-> pl,
      objects |-> objs,
      gameOver |-> go,
      levelComplete |-> lc,
      isPaused |-> ip,
      objectsCollected |-> 0,
      objectsMissed |-> 0] :
        sc \in {0, 12}, pl \in Lane, objs \in AnyObjectLists,
        go \in BOOLEAN, lc \in BOOLEAN, ip \in BOOLEAN}

InitAny ==
    /\ state \in AnyStates
    /\ idCounter = Len(state.objects)
    /\ lastOp = "none"
    /\ collected = [i \in Ids |-> 0]
    /\ missed = [i \in Ids |-> 0]
    /\ InitOpIdle
    /\ InitNoTie
    /\ InitLvlIdle
    /\ InitAudioIdle
    /\ InitLoopIdle
    /\ InitBackendIdle
    /\ InitWavIdle
    /\ InitScreenIdle

NextTick == Tick

SpecTick == InitAny /\ [][NextTick]_vars

\* ------------------------------------------------------------------------
\* applyOperation on its own
\* ------------------------------------------------------------------------
OpScores == (0 - MaxAbsScore)..MaxAbsScore

OpInputs == {op(t, v) : t \in OperationType, v \in 0..MaxOperand}

InitOp ==
    /\ state = createInitialState(getLevelConfig(1))
    /\ idCounter = 0
    /\ lastOp = "createInitialState"
    /\ collected = [i \in Ids |-> 0]
    /\ missed = [i \in Ids |-> 0]
    /\ opScore \in OpScores
    /\ opArg \in OpInputs
    /\ opResult = 0
    /\ opDone = FALSE
    /\ InitNoTie
    /\ InitLvlIdle
    /\ InitAudioIdle
    /\ InitLoopIdle
    /\ InitBackendIdle
    /\ InitWavIdle
    /\ InitScreenIdle

ApplyOperation ==
    /\ ~opDone
    /\ opResult' = applyOperation(opScore, opArg)
    /\ opDone' = TRUE
    /\ UNCHANGED <<opScore, opArg, exceptOp>>

NextOp == ApplyOperation

SpecOp == InitOp /\ [][NextOp]_vars

\* ------------------------------------------------------------------------
\* One object falling toward a player who waits in its lane
\* ------------------------------------------------------------------------
\* the levels whose configuration the falling object is spawned from: they
\* cover every objectSpeed from 0.004 up to the cap of 0.015
FallLevels == 1..MaxFallLevel

\* createInitialState, spawnObject, addObject and movePlayer into the
\* object's lane, as the driver does before the first tick
FallStart(lvl, lane, opIndex) ==
    movePlayer(
        addObject(createInitialState(getLevelConfig(lvl)),
                  spawnObject(getLevelConfig(lvl), lane, opIndex, 0)),
        lane)

InitFall ==
    /\ \E lvl \in FallLevels, lane \in Lane :
         \E opIndex \in 1..Len(getLevelConfig(lvl).availableOperations) :
            state = FallStart(lvl, lane, opIndex)
    /\ idCounter = 1
    /\ lastOp = "movePlayer"
    /\ collected = [i \in Ids |-> 0]
    /\ missed = [i \in Ids |-> 0]
    /\ tieInBand \in BOOLEAN
    /\ tiePassed \in BOOLEAN
    /\ InitOpIdle
    /\ InitLvlIdle
    /\ InitAudioIdle
    /\ InitLoopIdle
    /\ InitBackendIdle
    /\ InitWavIdle
    /\ InitScreenIdle

NextFall == Tick

SpecFall == InitFall /\ [][NextFall]_vars

\* ------------------------------------------------------------------------
\* getLevelConfig on its own
\* ------------------------------------------------------------------------
LevelInputs == 1..MaxLevel

InitLevel ==
    /\ lvlArg \in LevelInputs
    /\ lvlResult = getLevelConfig(1)
    /\ lvlDone = FALSE
    /\ InitEngineIdle
    /\ InitOpIdle
    /\ InitNoTie
    /\ InitAudioIdle
    /\ InitLoopIdle
    /\ InitBackendIdle
    /\ InitWavIdle
    /\ InitScreenIdle

GetLevelConfig ==
    /\ ~lvlDone
    /\ lvlResult' = getLevelConfig(lvlArg)
    /\ lvlDone' = TRUE
    /\ UNCHANGED <<lvlArg, exceptLvl>>

NextLevel == GetLevelConfig

SpecLevel == InitLevel /\ [][NextLevel]_vars

\* ------------------------------------------------------------------------
\* Announcer driven through its interface
\* ------------------------------------------------------------------------
\* the platform calls that fail in a step: createAsync or setPositionAsync
\* ("load"), playAsync ("play"), Speech.speak ("tts"); at most MaxFaults
\* failures in a session
FaultSets ==
    {f \in SUBSET {"load", "play", "tts"} :
        Cardinality(f) + announcer.faults <= MaxFaults}

\* no call is waiting in a microtask
NoMicro == \A c \in Calls : announcer.calls[c].pc # "micro"

InitAudio ==
    /\ \E assetTable \in AssetTables, speechOn \in BOOLEAN :
          announcer = newStereoAudioManager(assetTable, speechOn)
    /\ InitEngineIdle
    /\ InitOpIdle
    /\ InitNoTie
    /\ InitLvlIdle
    /\ InitLoopIdle
    /\ InitBackendIdle
    /\ InitWavIdle
    /\ InitScreenIdle

AnnounceObject ==
    /\ announcer.nCalls < MaxCalls
    /\ \E f \in FaultSets : announcer' = announceObject(announcer, f)
    /\ UNCHANGED exceptAudio

AnnounceLevelComplete ==
    /\ announcer.nCalls < MaxCalls
    /\ \E f \in FaultSets :
          announcer' = speakBegin(announcer, "announceLevelComplete", f)
    /\ UNCHANGED exceptAudio

AnnounceGameOver ==
    /\ announcer.nCalls < MaxCalls
    /\ \E f \in FaultSets :
          announcer' = speakBegin(announcer, "announceGameOver", f)
    /\ UNCHANGED exceptAudio

\* speak('Go!', { type: 'countdown', value: 'go' })
Speak ==
    /\ announcer.nCalls < MaxCalls
    /\ \E f \in FaultSets : announcer' = speakBegin(announcer, "speak", f)
    /\ UNCHANGED exceptAudio

\* speakAndWait(speechDescription, { type: 'level_intro', level: 1 })
SpeakAndWait ==
    /\ announcer.nCalls < MaxCalls
    /\ \E f \in FaultSets :
          announcer' = speakBegin(announcer, "speakAndWait", f)
    /\ UNCHANGED exceptAudio

Stop ==
    /\ announcer' = stop(announcer)
    /\ UNCHANGED exceptAudio

PlayEffect ==
    /\ \E e \in Effects : announcer' = playEffect(announcer, e)
    /\ UNCHANGED exceptAudio

\* the microtask of the oldest call whose clip is not in the asset table
ResumeMicro ==
    /\ \E c \in Calls :
          /\ announcer.calls[c].pc = "micro"
          /\ \A b \in Calls : b < c => announcer.calls[b].pc # "micro"
          /\ \E f \in FaultSets :
                announcer' = ttsFallback(announcer, c, "tts" \in f)
    /\ UNCHANGED exceptAudio

ResumeCreate ==
    /\ NoMicro
    /\ \E c \in Calls :
          /\ announcer.calls[c].pc = "create"
          /\ \E f \in FaultSets : announcer' = afterCreate(announcer, c, f)
    /\ UNCHANGED exceptAudio

ResumeSetpos ==
    /\ NoMicro
    /\ \E c \in Calls :
          /\ announcer.calls[c].pc = "setpos"
          /\ \E f \in FaultSets : announcer' = afterSetpos(announcer, c, f)
    /\ UNCHANGED exceptAudio

ResumePlay ==
    /\ NoMicro
    /\ \E c \in Calls :
          /\ announcer.calls[c].pc = "play"
          /\ announcer' = afterPlay(announcer, c)
    /\ UNCHANGED exceptAudio

ResumePlayFail ==
    /\ NoMicro
    /\ \E c \in Calls :
          /\ announcer.calls[c].pc \in {"playfail", "playfailDone"}
          /\ \E f \in FaultSets : announcer' = afterPlayFail(announcer, c, f)
    /\ UNCHANGED exceptAudio

SoundFinish ==
    /\ NoMicro
    /\ \E s \in Calls :
          /\ announcer.snd[s].playing
          /\ announcer' = soundFinished(announcer, s)
    /\ UNCHANGED exceptAudio

\* the utterance ends or fails: onDone, onError
TtsFinish ==
    /\ NoMicro
    /\ announcer.ttsNow # 0
    /\ announcer' =
          ttsCallback([announcer EXCEPT !.ttsNow = 0], announcer.ttsNow)
    /\ UNCHANGED exceptAudio

\* onStopped of an utterance Speech.stop() has ended
TtsStopped ==
    /\ NoMicro
    /\ \E c \in announcer.ttsStopped :
          announcer' =
              ttsCallback([announcer EXCEPT !.ttsStopped = @ \ {c}], c)
    /\ UNCHANGED exceptAudio

ToneFinish ==
    /\ NoMicro
    /\ \E e \in announcer.tones :
          announcer' = [announcer EXCEPT !.tones = @ \ {e}]
    /\ UNCHANGED exceptAudio

\* the steps the platform takes by itself
AudioProgress ==
    \/ ResumeMicro
    \/ ResumeCreate
    \/ ResumeSetpos
    \/ ResumePlay
    \/ ResumePlayFail
    \/ SoundFinish
    \/ TtsFinish
    \/ TtsStopped
    \/ ToneFinish

\* the calls made on the manager
AudioCall ==
    \/ AnnounceObject
    \/ AnnounceLevelComplete
    \/ AnnounceGameOver
    \/ Speak
    \/ SpeakAndWait
    \/ Stop
    \/ PlayEffect

NextAudio == AudioCall \/ AudioProgress

SpecAudio == InitAudio /\ [][NextAudio]_vars

\* the platform settles every promise and delivers every event it owes
SpecAudioLive ==
    /\ SpecAudio
    /\ WF_vars(ResumeMicro)
    /\ WF_vars(ResumeCreate)
    /\ WF_vars(ResumeSetpos)
    /\ WF_vars(ResumePlay)
    /\ WF_vars(ResumePlayFail)
    /\ WF_vars(SoundFinish)
    /\ WF_vars(TtsFinish)
    /\ WF_vars(TtsStopped)
    /\ WF_vars(ToneFinish)

\* ------------------------------------------------------------------------
\* Game loop of the game screen
\* ------------------------------------------------------------------------
\* state is gameStateRef.current.  The interval timer fires every TICK_MS, so
\* Date.now() - lastSpawnTime.current grows by TICK_MS from one iteration to
\* the next.

\* the level the screen is opened with: it can be won and lost within
\* MaxLoopSpawn objects
LoopLevel == 6

\* the entries of availableOperations spawnObject's random index falls on:
\* '+15', '-10', '×3'
LoopOpIndexes == {3, 6, 8}

LoopIds == 1..MaxLoopSpawn

\* the audio calls of the loop body with each outcome phrase ahead of its
\* stop
loopAudio_phraseFirst(before, spawned, prevScore, updated) ==
    (IF spawned THEN <<"announceObject">> ELSE <<>>)
    \o (IF updated.score # prevScore THEN <<"playCollect">> ELSE <<>>)
    \o (IF updated.levelComplete /\ ~before.levelComplete
        THEN <<"announceLevelComplete", "stop", "playSuccess">>
        ELSE <<>>)
    \o (IF updated.gameOver /\ ~before.gameOver
        THEN <<"announceGameOver", "stop", "playGameOver">>
        ELSE <<>>)

\* the audio calls of the loop body, in the order the body makes them
loopAudio(before, spawned, prevScore, updated) ==
    (IF spawned THEN <<"announceObject">> ELSE <<>>)
    \o (IF updated.score # prevScore THEN <<"playCollect">> ELSE <<>>)
    \o (IF updated.levelComplete /\ ~before.levelComplete
        THEN <<"stop", "playSuccess", "announceLevelComplete">>
        ELSE <<>>)
    \o (IF updated.gameOver /\ ~before.gameOver
        THEN <<"stop", "playGameOver", "announceGameOver">>
        ELSE <<>>)

\* now - lastSpawnTime.current >= levelConfig.spawnIntervalMs
SpawnDue ==
    elapsed + TICK_MS >= getLevelConfig(state.level).spawnIntervalMs

InitLoop ==
    /\ state = createInitialState(getLevelConfig(LoopLevel))
    /\ idCounter = 0
    /\ lastOp = "createInitialState"
    /\ collected = [i \in LoopIds |-> 0]
    /\ missed = [i \in LoopIds |-> 0]
    /\ elapsed = 0
    /\ audioLog = <<>>
    /\ InitOpIdle
    /\ InitNoTie
    /\ InitLvlIdle
    /\ InitAudioIdle
    /\ InitBackendIdle
    /\ InitWavIdle
    /\ InitScreenIdle

\* the callback of setInterval returning at once
LoopIdle ==
    /\ state.gameOver \/ state.levelComplete \/ state.isPaused
    /\ audioLog' = <<>>
    /\ lastOp' = "loop"
    /\ UNCHANGED <<state, idCounter, collected, missed, elapsed, exceptLoop>>

\* the callback of setInterval: spawn when due, tick, audio, store
LoopIteration ==
    /\ ~(state.gameOver \/ state.levelComplete \/ state.isPaused)
    /\ SpawnDue => idCounter < MaxLoopSpawn
    /\ \E lane \in Lane, opIndex \in LoopOpIndexes :
          LET levelConfig == getLevelConfig(state.level)
              newState ==
                  IF SpawnDue
                  THEN addObject(state,
                           spawnObject(levelConfig, lane, opIndex, idCounter))
                  ELSE state
              r == tickRun(newState)
              updated == tick(newState)
          IN /\ state' = updated
             /\ audioLog' = loopAudio(state, SpawnDue, newState.score, updated)
             /\ collected' = [i \in LoopIds |->
                                collected[i] + Occurrences(r.collectedIds, i)]
             /\ missed' = [i \in LoopIds |->
                              missed[i] + Occurrences(r.missedIds, i)]
    /\ idCounter' = IF SpawnDue THEN idCounter + 1 ELSE idCounter
    /\ elapsed' = IF SpawnDue THEN 0 ELSE elapsed + TICK_MS
    /\ lastOp' = "loop"
    /\ UNCHANGED exceptLoop

\* switchLane
SwitchLane ==
    /\ \E lane \in Lane : state' = movePlayer(state, lane)
    /\ lastOp' = "movePlayer"
    /\ UNCHANGED <<idCounter, collected, missed, elapsed, audioLog, exceptLoop>>

NextLoop == LoopIdle \/ LoopIteration \/ SwitchLane

SpecLoop == InitLoop /\ [][NextLoop]_vars

\* ------------------------------------------------------------------------
\* Backend of the announcer driven through its interface
\* ------------------------------------------------------------------------
InitBackend ==
    /\ \E audioOn \in BOOLEAN : backend = newBackend(audioOn)
    /\ InitWavIdle
    /\ InitScreenIdle
    /\ InitEngineIdle
    /\ InitOpIdle
    /\ InitNoTie
    /\ InitLvlIdle
    /\ InitAudioIdle
    /\ InitLoopIdle

InitCall ==
    /\ backend.nInits < MaxInits
    /\ backend' = init(backend)
    /\ UNCHANGED exceptBackend

ResumeInit ==
    /\ \E i \in Inits, ok \in BOOLEAN :
          /\ backend.inits[i] = "setup"
          /\ backend' = afterSetAudioMode(backend, i, ok)
    /\ UNCHANGED exceptBackend

PlayCollect ==
    /\ backend.nTones < MaxTones
    /\ \E lane \in Lane :
          backend' = playNativeTone(backend,
                         IF lane = "left" THEN "left_880_150"
                                          ELSE "right_880_150")
    /\ UNCHANGED exceptBackend

PlaySuccess ==
    /\ backend.nTones < MaxTones
    /\ backend' = playNativeTone(backend, "left_784_300")
    /\ UNCHANGED exceptBackend

PlayGameOver ==
    /\ backend.nTones < MaxTones
    /\ backend' = playNativeTone(backend, "gameover_center")
    /\ UNCHANGED exceptBackend

ResumeSetPosition ==
    /\ \E t \in Tones :
          /\ backend.tones[t].pc = "setpos"
          /\ backend' = afterSetPosition(backend, t)
    /\ UNCHANGED exceptBackend

ResumeWrite ==
    /\ \E t \in Tones :
          /\ backend.tones[t].pc = "write"
          /\ backend' = afterWrite(backend, t)
    /\ UNCHANGED exceptBackend

ResumeCreateTone ==
    /\ \E t \in Tones :
          /\ backend.tones[t].pc = "create"
          /\ backend' = afterCreateTone(backend, t)
    /\ UNCHANGED exceptBackend

ResumePlayTone ==
    /\ \E t \in Tones :
          /\ backend.tones[t].pc = "play"
          /\ backend' = afterPlayTone(backend, t)
    /\ UNCHANGED exceptBackend

ToneEnds ==
    /\ \E h \in Tones :
          /\ backend.handles[h].playing
          /\ backend' = toneFinished(backend, h)
    /\ UNCHANGED exceptBackend

\* cleanup() up to its first await, or to its end when soundCache is empty
Cleanup ==
    /\ backend.cleanup = "idle"
    /\ backend' = cleanupLoop(backend)
    /\ UNCHANGED exceptBackend

\* cleanup after await sound.unloadAsync()
ResumeCleanup ==
    /\ backend.cleanup = "unload"
    /\ backend' = cleanupLoop(backend)
    /\ UNCHANGED exceptBackend

NextBackend ==
    \/ InitCall
    \/ ResumeInit
    \/ PlayCollect
    \/ PlaySuccess
    \/ PlayGameOver
    \/ ResumeSetPosition
    \/ ResumeWrite
    \/ ResumeCreateTone
    \/ ResumePlayTone
    \/ ToneEnds
    \/ Cleanup
    \/ ResumeCleanup

SpecBackend == InitBackend /\ [][NextBackend]_vars

\* ------------------------------------------------------------------------
\* generateStereoWav on its own
\* ------------------------------------------------------------------------
InitWav ==
    /\ \E sample \in Samples, pan \in Pans :
          wav = [sample |-> sample, pan |-> pan,
                 out |-> generateStereoWav(0, "center"), done |-> FALSE]
    /\ InitEngineIdle
    /\ InitOpIdle
    /\ InitNoTie
    /\ InitLvlIdle
    /\ InitAudioIdle
    /\ InitLoopIdle
    /\ InitBackendIdle
    /\ InitScreenIdle

GenerateStereoWav ==
    /\ ~wav.done
    /\ wav' = [wav EXCEPT !.out = generateStereoWav(wav.sample, wav.pan),
                          !.done = TRUE]
    /\ UNCHANGED exceptWav

NextWav == GenerateStereoWav

SpecWav == InitWav /\ [][NextWav]_vars

\* ------------------------------------------------------------------------
\* Game screen: start effect, countdown, game loop, lane switch, Try Again
\* ------------------------------------------------------------------------
\* state is gameStateRef.current and screen.gameState the React state.  A
\* call of setGameState made from the interval callback is rendered by a
\* task of its own; a touch or a key can be handled before that task runs,
\* and its updater is then rendered at once, ahead of the loop's update, on
\* the last rendered state, and once more behind it when the task runs.  On
\* a root that renders every update where it is made the queue is always
\* empty: those are the runs in which Render follows each iteration.

\* the level the screen is opened with: its objects fall 0.014 a tick and
\* no position lands on a comparison boundary
ScreenLevel == 12

\* the entries of availableOperations spawnObject's random index falls on:
\* '-10' and '×3'
ScreenOpIndexes == {6, 8}

\* the continuation of start() with the test of cancelled left out
afterIntro_ignoresCancelled(scr) ==
    [scr EXCEPT !.start = "done",
                !.countdown = 3,
                !.history = Append(@, 3)]

\* the continuation of start() behind await speakAndWait(...)
afterIntro(scr) ==
    IF scr.cancelled
    THEN [scr EXCEPT !.start = "done"]
    ELSE [scr EXCEPT !.start = "done",
                     !.countdown = 3,
                     !.history = Append(@, 3)]

\* React running a queue of updates on the state prev: value is the state
\* it arrives at, ref what the updaters of switchLane left in
\* gameStateRef.current
RECURSIVE processUpdates(_, _)
processUpdates(acc, queue) ==
    IF queue = <<>>
    THEN acc
    ELSE LET update == Head(queue)
         IN IF update.kind = "set"
            THEN processUpdates([acc EXCEPT !.value = update.value],
                                Tail(queue))
            ELSE LET next == movePlayer(acc.value, update.lane)
                 IN processUpdates([value |-> next, ref |-> next],
                                   Tail(queue))

\* setGameState(updated) made by the interval callback: updates queued
\* ahead of it with no updater among them have no effect left
queueSet(queue, updated) ==
    IF \E i \in 1..Len(queue) : queue[i].kind = "updater"
    THEN Append(queue, [kind |-> "set", value |-> updated])
    ELSE <<[kind |-> "set", value |-> updated]>>

InitScreen ==
    /\ state = createInitialState(getLevelConfig(ScreenLevel))
    /\ idCounter = 0
    /\ lastOp = "createInitialState"
    /\ collected = [i \in LoopIds |-> 0]
    /\ missed = [i \in LoopIds |-> 0]
    /\ elapsed = 0
    /\ audioLog = <<>>
    /\ screen = newGameScreen(ScreenLevel, TRUE)
    /\ InitOpIdle
    /\ InitNoTie
    /\ InitLvlIdle
    /\ InitAudioIdle
    /\ InitBackendIdle
    /\ InitWavIdle

\* await stereoAudio.init() returns: start() calls speakAndWait
ResumeStartInit ==
    /\ screen.start = "init"
    /\ screen' = [screen EXCEPT !.start = "intro"]
    /\ lastOp' = "start"
    /\ UNCHANGED <<state, idCounter, collected, missed, elapsed, audioLog,
                   exceptScreen>>

\* await speakAndWait(...) returns
IntroReturns ==
    /\ screen.start = "intro"
    /\ screen' = afterIntro(screen)
    /\ lastOp' = "start"
    /\ UNCHANGED <<state, idCounter, collected, missed, elapsed, audioLog,
                   exceptScreen>>

\* await speakAndWait(...) throws: start() ends there
IntroRejects ==
    /\ screen.start = "intro"
    /\ screen' = [screen EXCEPT !.start = "rejected"]
    /\ lastOp' = "start"
    /\ UNCHANGED <<state, idCounter, collected, missed, elapsed, audioLog,
                   exceptScreen>>

\* the screen is unmounted: the cleanups of the effects run
Teardown ==
    /\ screen.mounted
    /\ screen' = [screen EXCEPT
                      !.mounted = FALSE,
                      !.cancelled = TRUE,
                      !.tornInIntro = screen.start \in {"init", "intro"}]
    /\ lastOp' = "teardown"
    /\ audioLog' = <<"stop">>
    /\ UNCHANGED <<state, idCounter, collected, missed, elapsed, exceptScreen>>

\* the timer of the countdown effect: setCountdown(c => c - 1); at 0 the
\* loop effect stores Date.now() in lastSpawnTime.current and starts the
\* interval
CountdownTimer ==
    /\ screen.mounted
    /\ screen.countdown > 0
    /\ screen' = [screen EXCEPT !.countdown = @ - 1,
                                !.history = Append(@, screen.countdown - 1)]
    /\ elapsed' = 0
    /\ lastOp' = "countdown"
    /\ audioLog' = <<>>
    /\ UNCHANGED <<state, idCounter, collected, missed, exceptScreen>>

\* the callback of setInterval returning at once
ScreenLoopIdle ==
    /\ screen.mounted
    /\ screen.countdown = 0
    /\ state.gameOver \/ state.levelComplete \/ state.isPaused
    /\ elapsed' =
          Min(elapsed + TICK_MS, getLevelConfig(state.level).spawnIntervalMs)
    /\ audioLog' = <<>>
    /\ lastOp' = "loopIdle"
    /\ UNCHANGED <<state, idCounter, collected, missed, screen, exceptScreen>>

\* the callback of setInterval: spawn when due, tick, audio, store,
\* setGameState(updated)
ScreenLoopIteration ==
    /\ screen.mounted
    /\ screen.countdown = 0
    /\ ~(state.gameOver \/ state.levelComplete \/ state.isPaused)
    /\ SpawnDue =>
          idCounter < (IF screen.session = 1
                       THEN MaxScreenSpawn ELSE MaxRetrySpawn)
    /\ \/ screen.pending = <<>>
       \/ /\ \E i \in 1..Len(screen.pending) :
                 screen.pending[i].kind = "updater"
          /\ Len(screen.pending) < MaxPending
    /\ \E lane \in Lane, opIndex \in ScreenOpIndexes :
          LET levelConfig == getLevelConfig(state.level)
              newState ==
                  IF SpawnDue
                  THEN addObject(state,
                           spawnObject(levelConfig, lane, opIndex, idCounter))
                  ELSE state
              updated == tick(newState)
              won == updated.levelComplete /\ ~state.levelComplete
              lost == updated.gameOver /\ ~state.gameOver
          IN /\ state' = updated
             /\ audioLog' = loopAudio(state, SpawnDue, newState.score, updated)
             /\ screen' =
                   [screen EXCEPT
                       !.pending = queueSet(@, updated),
                       !.committed = updated,
                       !.ticked = TRUE,
                       !.afterOutcome =
                           \/ @
                           \/ screen.outcomes.levelComplete > 0
                           \/ screen.outcomes.gameOver > 0,
                       !.outcomes =
                           [levelComplete |->
                                Min(2, @.levelComplete + IF won THEN 1 ELSE 0),
                            gameOver |->
                                Min(2, @.gameOver + IF lost THEN 1 ELSE 0)]]
    /\ idCounter' = IF SpawnDue THEN idCounter + 1 ELSE idCounter
    /\ elapsed' = IF SpawnDue THEN 0 ELSE elapsed + TICK_MS
    /\ lastOp' = "loopTick"
    /\ UNCHANGED <<collected, missed, exceptScreen>>

\* switchLane from a release of the pan responder or a key: the updater is
\* rendered before the handler's task ends, ahead of the updates the loop
\* has queued, and stays queued behind them
ScreenSwitchLane ==
    /\ screen.mounted
    /\ screen.pending # <<>> =>
          /\ Len(screen.pending) < MaxPending
          /\ screen.deferred < MaxDeferred
    /\ \E lane \in Lane :
          LET next == movePlayer(screen.gameState, lane)
          IN /\ state' = next
             /\ screen' =
                   [screen EXCEPT
                       !.gameState = IF screen.pending = <<>> THEN next ELSE @,
                       !.pending =
                           IF @ = <<>>
                           THEN <<>>
                           ELSE Append(@, [kind |-> "updater", lane |-> lane]),
                       !.deferred =
                           IF screen.pending = <<>> THEN @ ELSE @ + 1,
                       !.committed = movePlayer(@, lane),
                       !.input = screen.session > 1]
    /\ lastOp' = "switchLane"
    /\ audioLog' = <<>>
    /\ UNCHANGED <<idCounter, collected, missed, elapsed, exceptScreen>>

\* the task that renders the updates the loop has queued
Render ==
    /\ screen.mounted
    /\ screen.pending # <<>>
    /\ LET r == processUpdates([value |-> screen.gameState, ref |-> state],
                               screen.pending)
       IN /\ state' = r.ref
          /\ screen' = [screen EXCEPT !.gameState = r.value,
                                      !.pending = <<>>]
    /\ lastOp' = "render"
    /\ audioLog' = <<>>
    /\ UNCHANGED <<idCounter, collected, missed, elapsed, exceptScreen>>

\* 'Try Again' on the game-over overlay: stop(),
\* setGameState(createInitialState(levelConfig)), setCountdown(3)
TryAgain ==
    /\ screen.mounted
    /\ screen.countdown = 0
    /\ screen.gameState.gameOver
    /\ screen.pending = <<>>
    /\ screen.session < MaxSessions
    /\ screen' =
          [screen EXCEPT
              !.gameState = createInitialState(getLevelConfig(ScreenLevel)),
              !.countdown = 3,
              !.session = @ + 1,
              !.history = <<3>>,
              !.committed = createInitialState(getLevelConfig(ScreenLevel)),
              !.input = FALSE,
              !.ticked = FALSE,
              !.outcomes = [levelComplete |-> 0, gameOver |-> 0],
              !.afterOutcome = FALSE]
    /\ idCounter' = 0
    /\ lastOp' = "tryAgain"
    /\ audioLog' = <<"stop">>
    /\ UNCHANGED <<state, collected, missed, elapsed, exceptScreen>>

NextScreen ==
    \/ ResumeStartInit
    \/ IntroReturns
    \/ IntroRejects
    \/ Teardown
    \/ CountdownTimer
    \/ ScreenLoopIdle
    \/ ScreenLoopIteration
    \/ ScreenSwitchLane
    \/ Render
    \/ TryAgain

SpecScreen == InitScreen /\ [][NextScreen]_vars

\* ------------------------------------------------------------------------
\* Properties
\* ------------------------------------------------------------------------
Terminal(s) == s.gameOver \/ s.levelComplete

ObjectIds(s) == {s.objects[i].id : i \in 1..Len(s.objects)}

\* C1: a tick on a state with gameOver, levelComplete or isPaused set returns
\* that state with every field unchanged, whatever its objects are.
C1_TickNoOpWhenStopped ==
    [][(lastOp' = "tick" /\ (state.gameOver \/ state.levelComplete \/ state.isPaused))
          => state' = state]_vars

\* a tick has run on a state that is only paused and holds an object that a
\* running tick would collect
C1_Witness ==
    /\ lastOp = "tick"
    /\ state.isPaused /\ ~state.gameOver /\ ~state.levelComplete
    /\ \E i \in 1..Len(state.objects) :
          Collides(state.objects[i], state.objects[i].y + state.objects[i].speed,
                   state.playerLane)

\* C2: gameOver and levelComplete are never both true in a state reached
\* from createInitialState by addObject, movePlayer and tick.
C2_MutuallyExclusive == ~(state.gameOver /\ state.levelComplete)

\* C3: once gameOver or levelComplete is true, no engine operation changes
\* score or objects.
C3_TerminalFrozen ==
    [][Terminal(state) =>
          (state'.score = state.score /\ state'.objects = state.objects)]_vars

\* C4: a score below -20 at the end of a tick comes with gameOver = TRUE, and
\* gameOver stays TRUE under every later tick, movePlayer and addObject.
C4_ScoreFloor ==
    /\ [](state.score < -20 => state.gameOver)
    /\ [][state.gameOver => state'.gameOver]_vars

\* the floor was crossed and the engine was called again afterwards
C4_Witness ==
    /\ state.score < -20 /\ state.gameOver
    /\ lastOp = "addObject"

\* C5: a score of at least targetScore at the end of a tick comes with
\* levelComplete = TRUE, and from then on score keeps its value.
C5_WinFreezesScore ==
    /\ [](state.score >= state.targetScore => state.levelComplete)
    /\ [][state.levelComplete => state'.score = state.score]_vars

\* the target was reached and the engine was called again afterwards
C5_Witness ==
    /\ state.score >= state.targetScore /\ state.levelComplete
    /\ state.objects # <<>>
    /\ lastOp = "tick"

\* C6: a tick returns levelComplete = TRUE exactly when the score it returns
\* is at least targetScore.
C6_WinIffFinalScore ==
    lastOp = "tick" => (state.levelComplete <=> state.score >= state.targetScore)

\* C7: a tick returns gameOver = TRUE exactly when the score it returns is
\* below -20.
C7_GameOverIffFinalScore ==
    lastOp = "tick" => (state.gameOver <=> state.score < -20)

\* the ids a step has newly collected
NewlyCollected == {i \in Ids : collected'[i] > collected[i]}

\* C8: an object is consumed at most once: no id is collected or missed more
\* than once in total, a consumed id is gone from objects, objectsCollected
\* counts the collected ids, and a tick that collects one object returns the
\* score with that object's operation applied once.
C8_ConsumedOnce ==
    /\ [](/\ \A i \in Ids : collected[i] + missed[i] <= 1
          /\ \A i \in ObjectIds(state) : collected[i] + missed[i] = 0
          /\ state.objectsCollected = Cardinality({i \in Ids : collected[i] > 0}))
    /\ [][\A i \in Ids :
             NewlyCollected = {i} =>
                \E k \in 1..Len(state.objects) :
                    /\ state.objects[k].id = i
                    /\ state'.score =
                          applyOperation(state.score, state.objects[k].operation)]_vars

\* one object was collected, another one was missed, and a tick ran last
C8_Witness ==
    /\ \E i \in Ids : collected[i] = 1
    /\ \E j \in Ids : missed[j] = 1
    /\ lastOp = "tick"

\* C9: applyOperation returns score + value for "+", score - value for "-",
\* score * value for "×", and score unchanged for "÷" with value 0.
C9_ApplyOperation ==
    opDone =>
        /\ opArg.type = "+" => opResult = opScore + opArg.value
        /\ opArg.type = "-" => opResult = opScore - opArg.value
        /\ opArg.type = "×" => opResult = opScore * opArg.value
        /\ (opArg.type = "÷" /\ opArg.value = 0) => opResult = opScore

\* a division by zero was applied to a non-zero score
C9_Witness ==
    /\ opDone
    /\ opArg.type = "÷" /\ opArg.value = 0
    /\ opScore # 0

\* exact rounding rules for score / value with value > 0
RoundHalfAwayFromZero(s, v) ==
    IF s >= 0 THEN (2 * s + v) \div (2 * v) ELSE 0 - ((2 * (0 - s) + v) \div (2 * v))

RoundHalfToEven(s, v) ==
    LET lo == s \div v
        twice == 2 * (s - lo * v)
    IN IF twice < v THEN lo
       ELSE IF twice > v THEN lo + 1
       ELSE IF lo % 2 = 0 THEN lo ELSE lo + 1

\* C10 as stated: the division result is the nearest integer, with halves
\* resolved by ties-away-from-zero or by ties-to-even, the same rule for a
\* score and for its negation.
C10_OneTieRule ==
    (opDone /\ opArg.type = "÷" /\ opArg.value # 0) =>
        LET mirrored == applyOperation(0 - opScore, opArg)
        IN \/ /\ opResult = RoundHalfAwayFromZero(opScore, opArg.value)
              /\ mirrored = RoundHalfAwayFromZero(0 - opScore, opArg.value)
           \/ /\ opResult = RoundHalfToEven(opScore, opArg.value)
              /\ mirrored = RoundHalfToEven(0 - opScore, opArg.value)

\* C10 amended: the division result is the integer nearest to score / value,
\* and an exact half goes to the larger neighbour (toward plus infinity).
C10_NearestHalfUp ==
    (opDone /\ opArg.type = "÷" /\ opArg.value # 0) =>
        /\ 2 * (opResult * opArg.value - opScore) <= opArg.value
        /\ 2 * (opResult * opArg.value - opScore) > 0 - opArg.value

\* a negative score exactly half-way between two integers was divided
C10_Witness ==
    /\ opDone
    /\ opArg.type = "÷" /\ opArg.value = 2
    /\ opScore = -5 /\ opResult = -2

\* the object still falling, if any
Falling == state.objects[1]

\* C11: an object spawned at y = 0 in the lane the player waits in is
\* collected at the first tick that moves it to within COLLISION_THRESHOLD of
\* PLAYER_Y, for every level speed up to 0.015: it is never missed and never
\* still in play below the top of the band; the tick that collects it applies
\* its operation to the score, counts it once and removes it, and later ticks
\* change nothing (level 1, '+3': score 3, objectsCollected 1, objectsMissed
\* 0, objects empty).
C11_CollectedOnEntry ==
    /\ [](/\ state.objectsMissed = 0
          /\ state.objects # <<>> =>
                /\ Len(state.objects) = 1
                /\ state.score = 0
                /\ state.objectsCollected = 0
                /\ Falling.y <= PLAYER_Y - COLLISION_THRESHOLD
          /\ state.objects = <<>> => state.objectsCollected = 1)
    /\ [][/\ (/\ state.objects # <<>>
              /\ Abs(Falling.y + Falling.speed - PLAYER_Y)
                    < COLLISION_THRESHOLD)
             => /\ state'.objects = <<>>
                /\ state'.objectsCollected = 1
                /\ state'.score = applyOperation(0, Falling.operation)
          /\ state.objects = <<>> => state' = state]_vars

\* level 1, '+3' in the left lane: the object has been collected by a tick
C11_Witness ==
    /\ lastOp = "tick"
    /\ state.level = 1
    /\ state.playerLane = "left"
    /\ state.objects = <<>>
    /\ collected[1] = 1
    /\ state.score = 3
    /\ state.objectsCollected = 1
    /\ state.objectsMissed = 0

\* C12: for a level N above the six of the table getLevelConfig returns level
\* N with targetScore 100 + (N - 6) * 50, spawnIntervalMs the larger of 800
\* and 1400 - (N - 6) * 100, objectSpeed the smaller of 0.015 and
\* 0.008 + (N - 6) * 0.001, and the operations of level 6; for N in 1..6 it
\* returns the table entry whose level field is N.
C12_GetLevelConfig ==
    lvlDone =>
        IF lvlArg > 6
        THEN /\ lvlResult.level = lvlArg
             /\ lvlResult.targetScore = 100 + (lvlArg - 6) * 50
             /\ lvlResult.spawnIntervalMs =
                    IF 1400 - (lvlArg - 6) * 100 > 800
                    THEN 1400 - (lvlArg - 6) * 100
                    ELSE 800
             /\ lvlResult.objectSpeed =
                    IF 8 + (lvlArg - 6) < 15 THEN 8 + (lvlArg - 6) ELSE 15
             /\ lvlResult.availableOperations = LEVELS[6].availableOperations
        ELSE /\ lvlResult.level = lvlArg
             /\ \E i \in 1..Len(LEVELS) :
                    LEVELS[i].level = lvlArg /\ lvlResult = LEVELS[i]

\* getLevelConfig has returned for a level where the interval has reached its
\* floor and the speed its cap
C12_Witness ==
    /\ lvlDone
    /\ lvlArg = 13
    /\ lvlResult.targetScore = 450
    /\ lvlResult.spawnIntervalMs = 800
    /\ lvlResult.objectSpeed = 15

\* the playback call c started is going on: the speech engine is speaking its
\* utterance, or the Sound it played is sounding and no later call replayed it
Playing(c) ==
    \/ announcer.ttsNow = c
    \/ /\ announcer.calls[c].sound # 0
       /\ announcer.snd[announcer.calls[c].sound].playing
       /\ announcer.snd[announcer.calls[c].sound].by = c

\* the Sounds of the speech clips that are sounding
SoundsPlaying == {s \in Calls : announcer.snd[s].playing}

\* the call has returned to its caller
Settled(c) == announcer.calls[c].pc \in {"done", "rejected", "skipped"}

\* C13: at most one spoken phrase or pre-recorded clip is playing at any time,
\* under every interleaving of the speech calls with the steps of sound
\* creation and playback start.
C13_OnePhraseAtATime ==
    Cardinality(SoundsPlaying)
        + (IF announcer.ttsNow # 0 THEN 1 ELSE 0) <= 1

\* C14: after stop() has returned, no phrase or clip requested by a call made
\* before that stop() starts playing.
C14_NothingStartsAfterStop == ~announcer.lateStart

\* C15: once a newer speech call has started its phrase and set speaking,
\* nothing belonging to an earlier call changes the announcer's state for it:
\* while the newer phrase plays, speaking is true and, for a clip,
\* currentSound is the clip's Sound.
C15_StaleCallbacksIgnored ==
    \A c \in Calls :
        (/\ c > 1
         /\ c = announcer.nCalls
         /\ announcer.calls[c].pc \in {"done", "wait", "ttswait"}
         /\ Playing(c))
        => /\ announcer.speaking
           /\ announcer.ttsNow # c
                => announcer.currentSound = announcer.calls[c].sound

\* C16: speakAndWait with speech enabled has not returned to its caller while
\* the phrase or clip it started is still playing.
C16_NoReturnWhilePlaying ==
    \A c \in Calls :
        (isWaitCall(announcer, c) /\ Settled(c)) => ~Playing(c)

\* a speakAndWait returned after its clip, and another after its utterance,
\* had played to the end
C16_Witness ==
    /\ announcer.speechEnabled
    /\ announcer.nCalls = 2
    /\ \A c \in Calls :
          /\ isWaitCall(announcer, c)
          /\ announcer.calls[c].pc = "done"
          /\ ~announcer.calls[c].halted
    /\ announcer.ttsStopped = {}

\* C17: every speakAndWait call eventually returns, also when stop() or a
\* newer speech call halts its playback.
C17_SpeakAndWaitReturns ==
    \A c \in Calls :
        (isWaitCall(announcer, c)) ~> Settled(c)

\* the level-start sequence of the game screen goes on to setCountdown(3)
\* once its speakAndWait has returned without throwing
startReachesCountdown(an, c) == an.calls[c].pc = "done"

\* C18: a platform call that throws during speak or speakAndWait never
\* reaches the caller as an exception or a rejection, the level-start
\* sequence goes on to the countdown, and speaking is false once the failed
\* call is over and nothing plays.
C18_FailureContained ==
    \A c \in Calls :
        announcer.calls[c].faulted =>
            /\ announcer.calls[c].pc # "rejected"
            /\ (isWaitCall(announcer, c) /\ Settled(c))
                  => startReachesCountdown(announcer, c)
            /\ (/\ announcer.nCalls = 1
                /\ Settled(c)
                /\ announcer.ttsNow = 0
                /\ announcer.ttsStopped = {}
                /\ SoundsPlaying = {})
                  => ~announcer.speaking

\* the speech calls of terminal priority: level intro, countdown, level
\* complete, game over
TerminalPriority(c) ==
    announcer.calls[c].api \in
        {"speakAndWait", "speak", "announceLevelComplete", "announceGameOver"}

\* the step is a call of announceObject or of a sound effect
LowerPriorityCall ==
    \/ /\ announcer.nCalls < MaxCalls
       /\ announcer'.nCalls = announcer.nCalls + 1
       /\ announcer'.calls[announcer'.nCalls].api = "announceObject"
    \/ announcer'.tones # announcer.tones /\ announcer.tones \subseteq announcer'.tones

\* C19: a level-intro, countdown, level-complete or game-over announcement
\* that is playing is not stopped or replaced by a later announceObject call
\* or sound-effect call.
C19_TerminalNotInterrupted ==
    [][LowerPriorityCall =>
          \A c \in Calls :
              (TerminalPriority(c) /\ Playing(c)) =>
                  /\ announcer'.ttsNow = c \/ announcer.ttsNow # c
                  /\ (announcer.ttsNow # c) =>
                        announcer'.snd[announcer.calls[c].sound].playing]_vars

\* every audio call the loop body can make, in the order C20 gives them
LoopCallOrder ==
    <<"announceObject", "playCollect",
      "stop", "playSuccess", "announceLevelComplete",
      "stop", "playGameOver", "announceGameOver">>

\* the entries of LoopCallOrder at the positions in keep, in order
RECURSIVE Kept(_, _)
Kept(keep, i) ==
    IF i > Len(LoopCallOrder)
    THEN <<>>
    ELSE (IF i \in keep THEN <<LoopCallOrder[i]>> ELSE <<>>)
         \o Kept(keep, i + 1)

\* C20: an iteration of the game loop issues its audio calls in this order:
\* announceObject if it spawned an object, playCollect if the tick changed
\* the score, then stop, playSuccess, announceLevelComplete if levelComplete
\* became true, then stop, playGameOver, announceGameOver if gameOver became
\* true; it issues no other audio call.
C20_LoopAudioOrder ==
    [][lastOp' = "loop" =>
          audioLog' =
              Kept((IF idCounter' # idCounter THEN {1} ELSE {})
                   \cup (IF state'.score # state.score THEN {2} ELSE {})
                   \cup (IF state'.levelComplete /\ ~state.levelComplete
                         THEN {3, 4, 5} ELSE {})
                   \cup (IF state'.gameOver /\ ~state.gameOver
                         THEN {6, 7, 8} ELSE {}),
                   1)]_vars

\* an iteration whose tick collected the object that completed the level
C20_Witness ==
    /\ lastOp = "loop"
    /\ state.levelComplete
    /\ audioLog = <<"playCollect", "stop", "playSuccess",
                    "announceLevelComplete">>


\* the objects of state that a step collected / counted as missed
CollectedNow == {i \in 1..Len(state.objects) :
                    collected'[state.objects[i].id] > collected[state.objects[i].id]}

MissedNow == {i \in 1..Len(state.objects) :
                 missed'[state.objects[i].id] > missed[state.objects[i].id]}

\* C27: movePlayer returns a finished state (gameOver or levelComplete)
\* unchanged; otherwise it sets playerLane to the given lane and leaves every
\* other field as it was, and the tick that follows collects exactly the
\* objects entering the band in the new lane.
C27_MovePlayerFrame ==
    [][/\ lastOp' = "movePlayer" =>
            IF Terminal(state)
            THEN state' = state
            ELSE \E lane \in Lane :
                    state' = [score |-> state.score,
                              targetScore |-> state.targetScore,
                              level |-> state.level,
                              playerLane |-> lane,
                              objects |-> state.objects,
                              gameOver |-> state.gameOver,
                              levelComplete |-> state.levelComplete,
                              isPaused |-> state.isPaused,
                              objectsCollected |-> state.objectsCollected,
                              objectsMissed |-> state.objectsMissed]
       /\ (lastOp = "movePlayer" /\ lastOp' = "tick"
             /\ ~Terminal(state) /\ ~state.isPaused) =>
            \A i \in 1..Len(state.objects) :
                LET o == state.objects[i]
                IN i \in CollectedNow <=>
                      /\ o.lane = state.playerLane
                      /\ ~o.announced
                      /\ Abs(o.y + o.speed - 850) < 40]_vars

\* the player moved to the right lane while an object was in play, and the
\* tick after the move collected an object
C27_Witness ==
    /\ lastOp = "tick"
    /\ state.playerLane = "right"
    /\ state.objectsCollected >= 1
    /\ \E i \in Ids : collected[i] = 1
    /\ state.objects # <<>>

\* C28: in a running tick, an object is counted as missed and removed exactly
\* when it is not collected in that tick and its advanced position exceeds
\* 1.10; objectsMissed grows by the number of such objects, and a tick that
\* collects nothing leaves score, objectsCollected, gameOver and
\* levelComplete as they were.
C28_MissedPastBottom ==
    [][(lastOp' = "tick" /\ ~Terminal(state) /\ ~state.isPaused) =>
          /\ \A i \in 1..Len(state.objects) :
                LET o == state.objects[i]
                IN /\ i \in MissedNow <=>
                         (i \notin CollectedNow /\ o.y + o.speed > 1100)
                   /\ i \in MissedNow =>
                         /\ missed'[o.id] = missed[o.id] + 1
                         /\ o.id \notin ObjectIds(state')
          /\ state'.objectsMissed = state.objectsMissed + Cardinality(MissedNow)
          /\ CollectedNow = {} =>
                /\ state'.score = state.score
                /\ state'.objectsCollected = state.objectsCollected
                /\ state'.gameOver = state.gameOver
                /\ state'.levelComplete = state.levelComplete]_vars

\* a tick has removed an object as missed while another one stays in play
C28_Witness ==
    /\ lastOp = "tick"
    /\ state.objectsMissed >= 1
    /\ \E i \in Ids : missed[i] = 1 /\ i \notin ObjectIds(state)
    /\ state.objects # <<>>
    /\ ~Terminal(state)

\* C29 as stated: every object in state.objects has 0 <= y <= 1.
C29_UnitRange ==
    \A i \in 1..Len(state.objects) :
        state.objects[i].y >= 0 /\ state.objects[i].y <= 1000

\* C29: every object in state.objects has 0 <= y <= 1.10: an object that is
\* not collected keeps falling past the player edge and is kept until its
\* position exceeds 1.10.
C29_PositionRange ==
    \A i \in 1..Len(state.objects) :
        state.objects[i].y >= 0 /\ state.objects[i].y <= 1100

\* a tick has kept an object that is below the player edge
C29_Witness ==
    /\ lastOp = "tick"
    /\ \E i \in 1..Len(state.objects) : state.objects[i].y > 1000


\* the ids handed out so far in the session: every spawned object is in
\* play, was collected or was missed
IssuedIds ==
    ObjectIds(state) \cup {i \in LoopIds : collected[i] > 0 \/ missed[i] > 0}

\* C30: in a session of the game loop, whatever the two random draws are,
\* spawnObject returns an object with y = 0, the level's objectSpeed, a lane
\* in {left, right}, an operation of the level's availableOperations and an
\* id that no earlier object of the session had; the object a spawning
\* iteration adds is that object moved by one tick, and the objects in
\* state.objects have pairwise distinct ids.
C30_SpawnFresh ==
    [][LET levelConfig == getLevelConfig(state.level)
           ops == levelConfig.availableOperations
       IN /\ \A lane \in Lane, opIndex \in 1..Len(ops) :
                LET o == spawnObject(levelConfig, lane, opIndex, idCounter)
                IN /\ o.y = 0
                   /\ o.speed = levelConfig.objectSpeed
                   /\ o.lane \in {"left", "right"}
                   /\ \E k \in 1..Len(ops) : o.operation = ops[k]
                   /\ o.id \notin IssuedIds
          /\ idCounter' # idCounter =>
                \E i \in 1..Len(state'.objects) :
                    LET n == state'.objects[i]
                    IN /\ n.id \notin IssuedIds
                       /\ n.y = levelConfig.objectSpeed
                       /\ n.speed = levelConfig.objectSpeed
                       /\ n.lane \in {"left", "right"}
                       /\ \E k \in 1..Len(ops) : n.operation = ops[k]
          /\ \A i, j \in 1..Len(state'.objects) :
                i # j => state'.objects[i].id # state'.objects[j].id]_vars

\* the loop has spawned a second object while the first is still in play
C30_Witness ==
    /\ lastOp = "loop"
    /\ idCounter >= 2
    /\ Len(state.objects) >= 2
    /\ state.objects[1].id # state.objects[2].id
    /\ state.objects[2].y = getLevelConfig(state.level).objectSpeed


\* the call was made with speech enabled
SpeechCall(c) ==
    announcer.calls[c].api # "none" /\ announcer.calls[c].pc # "skipped"

\* the clip of the call's key is in the asset table
ClipRecorded(c) == announcer.calls[c].key \in announcer.assets

LaneTone == "tone_left"

\* the step is an announceObject call that got past its stopped test, made
\* with speech enabled
AnnounceObjectCall ==
    /\ announcer.speechEnabled
    /\ announcer.nCalls < MaxCalls
    /\ announcer'.nCalls = announcer.nCalls + 1
    /\ announcer'.calls[announcer'.nCalls].api = "announceObject"

\* C26: every announceObject call made with audio and speech enabled starts
\* a tone panned to the given lane, and starts it before the phrase: when
\* the call hands over to the phrase, the tone has been started.
C26_ToneBeforePhrase ==
    [][AnnounceObjectCall => LaneTone \in announcer'.tones]_vars


\* the step belongs to a tone call: the call itself or one of its resumptions
ToneCallStep ==
    \/ backend'.nTones # backend.nTones
    \/ \E t \in Tones : backend'.tones[t].pc # backend.tones[t].pc

\* C21: a tone that is playing plays to its end: no step of a playCollect,
\* playSuccess or playGameOver call, the repeated call for the same key
\* included, stops the Sound that is playing or starts it over.
C21_EffectPlaysToEnd ==
    [][ToneCallStep =>
          \A h \in Tones :
              backend.handles[h].playing =>
                  backend'.handles[h] = backend.handles[h]]_vars

\* C22: between two cleanups at most one Sound is created and at most one
\* tone file is written per cache key, also when two requests for the key
\* overlap; a request that finds the key cached uses the cached Sound.
C22_CachePopulatedOnce ==
    /\ \A k \in ToneKeys :
          backend.created[k] <= 1 /\ backend.written[k] <= 1
    /\ \A t \in Tones :
          backend.tones[t].pc = "setpos" =>
              /\ backend.tones[t].sound # 0
              /\ backend.handles[backend.tones[t].sound].key = backend.tones[t].key

\* C24: before any cleanup, an init call that is not the first one performs
\* no backend set-up and changes no state, neither when it is made (also
\* while the first call is awaiting Audio.setAudioModeAsync) nor when it
\* resumes.
C24_InitIdempotent ==
    [][backend.cleanup = "idle" =>
          /\ (backend.nInits >= 1 /\ backend'.nInits = backend.nInits + 1) =>
                /\ backend'.setups = backend.setups
                /\ backend'.initialized = backend.initialized
          /\ \A i \in Inits :
                (i > 1 /\ backend.inits[i] = "setup"
                       /\ backend'.inits[i] = "done") =>
                    backend'.initialized = backend.initialized]_vars

\* the Sounds created by tone calls made before cleanup was called
EarlyHandles ==
    {h \in Tones : backend'.handles[h].key # "none" /\ backend'.tones[h].early}

\* C25: when cleanup completes, soundCache and fileCache are empty,
\* currentSound and the web audio context are null and initialized is false;
\* and from then on every Sound created by a call made before cleanup,
\* also one whose creation was in flight when cleanup started, is unloaded
\* and is not in soundCache.
C25_CleanupReleasesAll ==
    [][backend'.cleanup = "done" =>
          /\ backend.cleanup # "done" =>
                /\ \A k \in ToneKeys :
                      backend'.soundCache[k] = 0 /\ ~backend'.fileCache[k]
                /\ announcer'.currentSound = 0
                /\ ~backend'.webAudioContext
                /\ ~backend'.initialized
          /\ \A h \in EarlyHandles :
                /\ ~backend'.handles[h].loaded
                /\ \A k \in ToneKeys : backend'.soundCache[k] # h]_vars


\* the sequences that hold the elements of s in another order
Reorderings(s) ==
    {[i \in 1..Len(s) |-> s[f[i]]] :
        f \in {g \in [1..Len(s) -> 1..Len(s)] :
                  \A a, b \in 1..Len(s) : a # b => g[a] # g[b]}}

\* C31 as stated: a tick gives the same score, objectsCollected,
\* objectsMissed, gameOver and levelComplete whatever the order of
\* state.objects is.
C31_OrderIrrelevant ==
    [][lastOp' = "tick" =>
          \A objs \in Reorderings(state.objects) :
              LET t == tick([state EXCEPT !.objects = objs])
              IN /\ t.score = state'.score
                 /\ t.objectsCollected = state'.objectsCollected
                 /\ t.objectsMissed = state'.objectsMissed
                 /\ t.gameOver = state'.gameOver
                 /\ t.levelComplete = state'.levelComplete]_vars

\* C31: whatever the order of state.objects is, a tick gives the same
\* objectsCollected and objectsMissed and keeps the same objects; when the
\* tick collects at most one object it also gives the same score, gameOver
\* and levelComplete.  The operations of objects collected in one tick are
\* applied in the order of the list.
C31_CountsOrderFree ==
    [][lastOp' = "tick" =>
          \A objs \in Reorderings(state.objects) :
              LET t == tick([state EXCEPT !.objects = objs])
              IN /\ t.objectsCollected = state'.objectsCollected
                 /\ t.objectsMissed = state'.objectsMissed
                 /\ ObjectIds(t) = ObjectIds(state')
                 /\ state'.objectsCollected <= state.objectsCollected + 1 =>
                       /\ t.score = state'.score
                       /\ t.gameOver = state'.gameOver
                       /\ t.levelComplete = state'.levelComplete]_vars

\* a tick has collected two objects at once
C31_Witness ==
    /\ lastOp = "tick"
    /\ Cardinality({i \in Ids : collected[i] = 1}) >= 2
    /\ state.objectsCollected = 2
    /\ state.objects = <<>>

\* C35: objectsCollected + objectsMissed + the number of objects in play
\* equals the number of addObject calls made since createInitialState.
C35_ObjectsConserved ==
    state.objectsCollected + state.objectsMissed + Len(state.objects)
        = idCounter

\* three objects were added; one was collected, one missed, one is in play
C35_Witness ==
    /\ idCounter = 3
    /\ state.objectsCollected = 1
    /\ state.objectsMissed = 1
    /\ Len(state.objects) = 1

\* C40: from each level N >= 1 to the next, targetScore of getLevelConfig
\* grows strictly, spawnIntervalMs does not grow and is at least 800, and
\* objectSpeed does not shrink and is at most 0.015.
C40_DifficultyMonotone ==
    lvlDone =>
        LET next == getLevelConfig(lvlArg + 1)
        IN /\ next.targetScore > lvlResult.targetScore
           /\ next.spawnIntervalMs <= lvlResult.spawnIntervalMs
           /\ lvlResult.spawnIntervalMs >= 800
           /\ next.spawnIntervalMs >= 800
           /\ next.objectSpeed >= lvlResult.objectSpeed
           /\ lvlResult.objectSpeed <= 15
           /\ next.objectSpeed <= 15

\* getLevelConfig has returned a level at which both caps are in force
C40_Witness ==
    /\ lvlDone
    /\ lvlArg > 13
    /\ lvlResult.spawnIntervalMs = 800
    /\ lvlResult.objectSpeed = 15


\* C34: whenever the level-complete or the game-over phrase is spoken by
\* TTS, the text spoken includes the score, also when a recorded clip exists
\* and fails to play.
C34_TtsTextHasScore ==
    \A c \in Calls :
        (/\ announcer.calls[c].api \in
                {"announceLevelComplete", "announceGameOver"}
         /\ announcer.calls[c].played \in {"tts", "both"}) =>
            announcer.calls[c].text \in
                {"Level 1 complete! Score: X", "Game over. Score: X"}

\* the tick of the iteration collected at least one object
LoopCollected == \E i \in LoopIds : collected'[i] > collected[i]

\* C38: an iteration of the game loop calls playCollect if and only if its
\* tick collected at least one object.
C38_CollectIffCollected ==
    [][lastOp' = "loop" =>
          ((\E k \in 1..Len(audioLog') : audioLog'[k] = "playCollect")
              <=> LoopCollected)]_vars


\* C33: for the same sample, the values written for pan 'left' and for pan
\* 'right' are each other's with the channels swapped; in each the opposite
\* channel's value is 10% of the panned channel's (exactly before the
\* values are written as 16-bit integers, and rounded down by Math.floor
\* when written) and is not zero unless the sample is within the rounding
\* step of zero; pan 'center' gives equal channels.
C33_PanMirror ==
    wav.done =>
        LET asLeft == generateStereoWav(wav.sample, "left")
            asRight == generateStereoWav(wav.sample, "right")
            panned == IF wav.pan = "right" THEN wav.out.right ELSE wav.out.left
            opposite == IF wav.pan = "right" THEN wav.out.left ELSE wav.out.right
            pannedSample == IF wav.pan = "right" THEN wav.out.rightSample
                                                 ELSE wav.out.leftSample
            oppositeSample == IF wav.pan = "right" THEN wav.out.leftSample
                                                   ELSE wav.out.rightSample
        IN /\ asLeft.left = asRight.right
           /\ asLeft.right = asRight.left
           /\ wav.pan \in {"left", "right"} =>
                 /\ 10 * oppositeSample = pannedSample
                 /\ panned - 10 * opposite \in 0..9
                 /\ wav.sample # 0 => oppositeSample # 0
                 /\ (panned >= 10 \/ panned < 0) => opposite # 0
           /\ wav.pan = "center" =>
                 /\ wav.out.left = wav.out.right
                 /\ wav.out.leftSample = wav.out.rightSample

\* a left-panned sample at full amplitude has been written: 19660 on the
\* left, 1966 on the right
C33_Witness ==
    /\ wav.done
    /\ wav.pan = "left"
    /\ wav.sample = AMPLITUDE
    /\ wav.out.left = 19660
    /\ wav.out.right = 1966

\* C32: on the game screen no tick and no spawn of the loop happens before
\* the level-intro speakAndWait has returned and countdown has been set to
\* 3, 2, 1 and 0 in that order; and when the screen is torn down before the
\* intro has returned, countdown stays at -1 and the loop never ticks.
C32_IntroThenCountdown ==
    /\ (screen.ticked \/ idCounter > 0) =>
          /\ screen.start = "done"
          /\ screen.history = <<3, 2, 1, 0>>
    /\ screen.tornInIntro =>
          /\ screen.countdown = -1
          /\ screen.history = <<>>
          /\ ~screen.ticked

\* the loop of the first session has ticked and spawned
C32_Witness ==
    /\ screen.session = 1
    /\ screen.ticked
    /\ idCounter > 0
    /\ screen.history = <<3, 2, 1, 0>>

\* C36: in a session started with 'Try Again', once countdown is 0 and as
\* long as the player has made no input, the state the interval callback
\* reads is one it ticks: a state of the new session, not a finished one.
C36_RetryLoopTicks ==
    (/\ screen.mounted
     /\ screen.session > 1
     /\ screen.countdown = 0
     /\ ~screen.input)
        => /\ ~state.gameOver
           /\ ~state.levelComplete
           /\ state.score = screen.committed.score

\* C37: whenever the interval callback ticks, the state it reads from
\* gameStateRef.current is the latest state the loop stored (or
\* createInitialState installed), moved to the lane of the switchLane calls
\* processed since: same score, objects, counters and flags.
C37_SwitchKeepsCommitted ==
    [][lastOp' = "loopTick" => state = screen.committed]_vars

\* C39: in one session the loop dispatches at most one outcome sequence
\* (level complete or game over, never both, neither twice) and the interval
\* callback does not tick, spawn or play after it.
C39_OneOutcome ==
    /\ screen.outcomes.levelComplete + screen.outcomes.gameOver <= 1
    /\ ~screen.afterOutcome

====
